---- MODULE Spec2Model ----
(***************************************************************************)
(* Query-planning core of KipSQL: the binder (AST -> logical plan), the    *)
(* expression / catalog data model and the heuristic column-pruning rules. *)
(***************************************************************************)
EXTENDS Integers, Sequences, FiniteSets, TLC

VARIABLES
    query,          \* the ast::Query handed to bind_query
    pc,             \* position of the binding pass inside bind_query / bind_select
    context,        \* Binder.context (bind_table, aliases, agg_calls, group_by_exprs, counters)
    select_list,    \* bind_select's local `select_list`
    plan,           \* bind_select's / bind_query's local `plan`
    having_orderby, \* bind_select's local `having_orderby`
    frames,         \* the bind_query calls in progress, innermost last
    from_locals,    \* bind_table_ref's locals: left_name and the next join to bind
    result,         \* what bind_query hands to its caller ("pending" while running)
    graph,          \* HepOptimizer.graph
    opt,            \* position of HepOptimizer::find_best (pass, nodes still to visit)
    insert          \* one run of Insert::_execute: its input, its position, its calls so far

vars == <<query, pc, context, select_list, plan, having_orderby, frames, from_locals,
          result, graph, opt, insert>>

\* ------------------------------------------------------------------ helpers

None == [some |-> FALSE]
Some(v) == [some |-> TRUE, v |-> v]

Ok(v) == [ok |-> TRUE, v |-> v]
Err(e) == [ok |-> FALSE, err |-> e]

\* `let v = ...;` : the value bound once
With(v, F(_)) == F(v)

\* The `?` operator: the error is returned, the value is passed on
AndThen(r, F(_)) == IF r.ok THEN F(r.v) ELSE r

\* An Err that leaves a function whose earlier statements have written self.context:
\* the binder keeps the context ctx those statements left
ErrAt(r, ctx) == IF r.ok THEN r ELSE [ok |-> FALSE, err |-> r.err, context |-> ctx]

SeqFilter(s, Keep(_)) ==
    LET F[i \in 0..Len(s)] ==
            IF i = 0 THEN <<>>
            ELSE IF Keep(s[i]) THEN Append(F[i-1], s[i]) ELSE F[i-1]
    IN F[Len(s)]

RECURSIVE SeqConcat(_)
SeqConcat(ss) == IF ss = <<>> THEN <<>> ELSE Head(ss) \o SeqConcat(Tail(ss))

SeqContains(s, x) == \E i \in 1..Len(s) : s[i] = x

\* Index of the first element satisfying P, 0 when there is none (Iterator::position).
Position(s, P(_)) ==
    IF \E i \in 1..Len(s) : P(s[i])
    THEN CHOOSE i \in 1..Len(s) : P(s[i]) /\ \A j \in 1..(i-1) : ~P(s[j])
    ELSE 0

\* ------------------------------------------------------------------ catalog

\* ColumnCatalog { id, name, table_name, nullable, desc { column_datatype, is_primary } }
ColumnCatalog(id, name, table, nullable, datatype, primary) ==
    [id |-> id, name |-> name, table_name |-> table, nullable |-> nullable,
     desc |-> [column_datatype |-> datatype, is_primary |-> primary]]

\* The tables of the storage the binder looks tables up in: t1(c1, c2) and
\* t2(c3, c4) as in the repository's tests, t3 sharing the column name c1 with t1.
Storage ==
    [t1 |-> <<ColumnCatalog(1, "c1", "t1", FALSE, "Integer", TRUE),
              ColumnCatalog(2, "c2", "t1", FALSE, "Integer", FALSE)>>,
     t2 |-> <<ColumnCatalog(3, "c3", "t2", FALSE, "Integer", TRUE),
              ColumnCatalog(4, "c4", "t2", TRUE, "Integer", FALSE)>>,
     t3 |-> <<ColumnCatalog(5, "c5", "t3", FALSE, "Integer", TRUE),
              ColumnCatalog(6, "c1", "t3", FALSE, "Integer", FALSE)>>,
     t4 |-> <<ColumnCatalog(7, "c7", "t4", FALSE, "Integer", TRUE),
              ColumnCatalog(8, "c8", "t4", TRUE, "Integer", FALSE)>>]

\* Storage::table_catalog: Some(TableCatalog) or None.
table_catalog(name) ==
    IF name \in DOMAIN Storage
    THEN Some([name |-> name, columns |-> Storage[name]])
    ELSE None

\* TableCatalog::contains_column(name)
contains_column(table, name) == \E i \in 1..Len(table.columns) : table.columns[i].name = name

\* TableCatalog::get_column_by_name(name); 0 when there is none
column_index(table, name) == Position(table.columns, LAMBDA c : c.name = name)

\* ------------------------------------------------------------------ expressions

Constant(v, ty) == [tag |-> "Constant", value |-> v, ty |-> ty]
ColumnRef(col) == [tag |-> "ColumnRef", col |-> col]
InputRef(index, ty) == [tag |-> "InputRef", index |-> index, ty |-> ty]
Alias(expr, alias) == [tag |-> "Alias", expr |-> expr, alias |-> alias]
TypeCast(expr, ty) == [tag |-> "TypeCast", expr |-> expr, ty |-> ty]
IsNull(expr) == [tag |-> "IsNull", expr |-> expr]
Unary(op, expr, ty) == [tag |-> "Unary", op |-> op, expr |-> expr, ty |-> ty]
Binary(op, l, r, ty) ==
    [tag |-> "Binary", op |-> op, left_expr |-> l, right_expr |-> r, ty |-> ty]
AggCall(kind, distinct, args, ty) ==
    [tag |-> "AggCall", kind |-> kind, distinct |-> distinct, args |-> args, ty |-> ty]

\* ScalarExpression::return_type
RECURSIVE return_type(_)
return_type(e) ==
    CASE e.tag = "Constant" -> e.ty
      [] e.tag = "ColumnRef" -> e.col.desc.column_datatype
      [] e.tag = "InputRef" -> e.ty
      [] e.tag = "Alias" -> return_type(e.expr)
      [] e.tag = "TypeCast" -> e.ty
      [] e.tag = "IsNull" -> "Boolean"
      [] e.tag = "Unary" -> e.ty
      [] e.tag = "Binary" -> e.ty
      [] e.tag = "AggCall" -> e.ty

\* ScalarExpression::unpack_alias: strips one layer of Alias
unpack_alias(e) == IF e.tag = "Alias" THEN e.expr ELSE e

\* ScalarExpression::referenced_columns: left-to-right, pre-order, duplicates kept
RECURSIVE referenced_columns(_)
RECURSIVE referenced_columns_seq(_)
referenced_columns(e) ==
    CASE e.tag = "ColumnRef" -> <<e.col>>
      [] e.tag \in {"Alias", "TypeCast", "IsNull", "Unary"} -> referenced_columns(e.expr)
      [] e.tag = "Binary" ->
            referenced_columns(e.left_expr) \o referenced_columns(e.right_expr)
      [] e.tag = "AggCall" -> referenced_columns_seq(e.args)
      [] OTHER -> <<>>
referenced_columns_seq(es) ==
    IF es = <<>> THEN <<>>
    ELSE referenced_columns(Head(es)) \o referenced_columns_seq(Tail(es))

\* ScalarExpression::has_agg_call(context): an AggCall anywhere in the tree; after
\* aggregate extraction an InputRef that indexes context.agg_calls stands for the
\* AggCall it replaced.
RECURSIVE has_agg_call(_, _)
has_agg_call(e, ctx) ==
    CASE e.tag = "AggCall" -> TRUE
      [] e.tag = "InputRef" -> e.index < Len(ctx.agg_calls)
      [] e.tag \in {"Alias", "TypeCast", "IsNull", "Unary"} -> has_agg_call(e.expr, ctx)
      [] e.tag = "Binary" ->
            has_agg_call(e.left_expr, ctx) \/ has_agg_call(e.right_expr, ctx)
      [] OTHER -> FALSE

\* ------------------------------------------------------------------ AST (sqlparser::ast)

Identifier(name) == [k |-> "Identifier", name |-> name]
CompoundIdentifier(table, name) == [k |-> "CompoundIdentifier", table |-> table, name |-> name]
Value(v) == [k |-> "Value", value |-> v]
BinaryOp(l, op, r) == [k |-> "BinaryOp", left |-> l, op |-> op, right |-> r]
UnaryOp(op, e) == [k |-> "UnaryOp", op |-> op, expr |-> e]
Function(name, arg) == [k |-> "Function", name |-> name, arg |-> arg]
IsNullExpr(e) == [k |-> "IsNull", expr |-> e]
Cast(e, ty) == [k |-> "Cast", expr |-> e, data_type |-> ty]
Subquery == [k |-> "Subquery"]

\* ------------------------------------------------------------------ binder context

\* BinderContext::new
NewContext ==
    [bind_table |-> <<>>,      \* insertion-ordered: [name, catalog, join_type]
     aliases |-> <<>>,         \* name -> ScalarExpression
     agg_calls |-> <<>>,
     group_by_exprs |-> <<>>,
     input_ref_counters |-> [AggCall |-> 0, GroupBy |-> 0]]

bind_table_contains_key(ctx, name) ==
    \E i \in 1..Len(ctx.bind_table) : ctx.bind_table[i].name = name

bind_table_get(ctx, name) ==
    ctx.bind_table[Position(ctx.bind_table, LAMBDA e : e.name = name)]

\* BinderContext::add_alias
add_alias(ctx, name, expr) == [ctx EXCEPT !.aliases = (name :> expr) @@ ctx.aliases]

\* BinderContext::input_ref_index(ty): the counter's value before it is advanced
input_ref_index(ctx, ty) == ctx.input_ref_counters[ty]
input_ref_advance(ctx, ty) ==
    [ctx EXCEPT !.input_ref_counters[ty] = ctx.input_ref_counters[ty] + 1]

\* ------------------------------------------------------------------ bind_expr

\* Result type of a binary operator: comparisons and logic yield Boolean, arithmetic
\* the widened operand type.
binary_type(op, lty, rty) ==
    IF op \in {"Eq", "NotEq", "Gt", "Lt", "GtEq", "LtEq", "And", "Or"} THEN "Boolean"
    ELSE IF "Double" \in {lty, rty} THEN "Double"
    ELSE lty

\* Result type of an aggregate call.
agg_type(kind, argty) ==
    CASE kind = "Count" -> "Integer"
      [] kind = "Avg" -> "Double"
      [] OTHER -> argty

agg_kind(name) ==
    CASE name = "count" -> "Count"
      [] name = "sum" -> "Sum"
      [] name = "avg" -> "Avg"
      [] name = "min" -> "Min"
      [] name = "max" -> "Max"

\* Binder::bind_column_ref_from_identifiers for `table.column`
bind_compound_identifier(ctx, table, name) ==
    IF ~bind_table_contains_key(ctx, table) THEN Err("InvalidTable")
    ELSE With(bind_table_get(ctx, table).catalog, LAMBDA cat :
         With(column_index(cat, name), LAMBDA i :
            IF i = 0 THEN Err("InvalidColumn") ELSE Ok(ColumnRef(cat.columns[i]))))

\* Binder::bind_column_ref_from_identifiers for a bare `column`: the column of the one
\* bound table that has it, else the select alias of that name.
bind_identifier(ctx, name) ==
    With(SeqFilter(ctx.bind_table, LAMBDA e : contains_column(e.catalog, name)), LAMBDA got :
        IF Len(got) > 1 THEN Err("InvalidColumn")
        ELSE IF Len(got) = 1
             THEN Ok(ColumnRef(got[1].catalog.columns[column_index(got[1].catalog, name)]))
        ELSE IF name \in DOMAIN ctx.aliases
             THEN Ok(Alias(ctx.aliases[name], name))
        ELSE Err("InvalidColumn"))

\* Binder::bind_expr
RECURSIVE bind_expr(_, _)
bind_expr(ctx, e) ==
    CASE e.k = "Identifier" -> bind_identifier(ctx, e.name)
      [] e.k = "CompoundIdentifier" -> bind_compound_identifier(ctx, e.table, e.name)
      [] e.k = "Value" -> Ok(Constant(e.value, "Integer"))
      [] e.k = "BinaryOp" ->
            AndThen(bind_expr(ctx, e.left), LAMBDA l :
            AndThen(bind_expr(ctx, e.right), LAMBDA r :
                Ok(Binary(e.op, l, r, binary_type(e.op, return_type(l), return_type(r))))))
      [] e.k = "UnaryOp" ->
            AndThen(bind_expr(ctx, e.expr), LAMBDA x : Ok(Unary(e.op, x, return_type(x))))
      [] e.k = "Function" ->
            AndThen(bind_expr(ctx, e.arg), LAMBDA x :
                Ok(AggCall(agg_kind(e.name), FALSE, <<x>>,
                           agg_type(agg_kind(e.name), return_type(x)))))
      [] e.k = "IsNull" ->
            AndThen(bind_expr(ctx, e.expr), LAMBDA x : Ok(IsNull(x)))
      [] e.k = "Cast" ->
            AndThen(bind_expr(ctx, e.expr), LAMBDA x : Ok(TypeCast(x, e.data_type)))
      [] OTHER -> Err("Unsupported")

\* ------------------------------------------------------------------ logical plan

LogicalPlan(operator, childrens) == [operator |-> operator, childrens |-> childrens]

Dummy == [op |-> "Dummy"]

\* ScanOperator::new: a Scan of every column of the table's catalog
ScanOperator(table_name, catalog) ==
    LogicalPlan([op |-> "Scan", table_name |-> table_name,
                 columns |-> [i \in 1..Len(catalog.columns) |-> ColumnRef(catalog.columns[i])]],
                <<>>)

\* JoinOperator::new
LJoinOperator(left, right, on, join_type) ==
    LogicalPlan([op |-> "Join", on |-> on, join_type |-> join_type], <<left, right>>)

\* FilterOperator::new
FilterOperator(predicate, children, having) ==
    LogicalPlan([op |-> "Filter", predicate |-> predicate, having |-> having], <<children>>)

\* AggregateOperator::new
AggregateOperator(children, agg_calls, groupby_exprs) ==
    LogicalPlan([op |-> "Aggregate", agg_calls |-> agg_calls, groupby_exprs |-> groupby_exprs],
                <<children>>)

\* LimitOperator::new
LimitOperator(offset, limit, children) ==
    LogicalPlan([op |-> "Limit", offset |-> offset, limit |-> limit], <<children>>)

\* SortField::new
SortField(expr, desc, nulls_first) == [expr |-> expr, desc |-> desc, nulls_first |-> nulls_first]

\* ------------------------------------------------------------------ binder: FROM

\* core::unicode::conversions::to_lower beyond ASCII, Unicode 17.0: each upper-case
\* character a string of this module can hold (U+0020..U+00FF and the characters whose low
\* byte is 0x80 or more), its lower case and the code point of that lower case; the lower
\* case is "" where no string here can hold it (U+0253 of U+0181), and the code point
\* stands for it. The capital sigma has its row; str::to_lowercase lowers it by its place.
LOWERCASE_TABLE ==
    {<<"À", "à", 224>>, <<"Á", "á", 225>>, <<"Â", "â", 226>>, <<"Ã", "ã", 227>>,
     <<"Ä", "ä", 228>>, <<"Å", "å", 229>>, <<"Æ", "æ", 230>>, <<"Ç", "ç", 231>>,
     <<"È", "è", 232>>, <<"É", "é", 233>>, <<"Ê", "ê", 234>>, <<"Ë", "ë", 235>>,
     <<"Ì", "ì", 236>>, <<"Í", "í", 237>>, <<"Î", "î", 238>>, <<"Ï", "ï", 239>>,
     <<"Ð", "ð", 240>>, <<"Ñ", "ñ", 241>>, <<"Ò", "ò", 242>>, <<"Ó", "ó", 243>>,
     <<"Ô", "ô", 244>>, <<"Õ", "õ", 245>>, <<"Ö", "ö", 246>>, <<"Ø", "ø", 248>>,
     <<"Ù", "ù", 249>>, <<"Ú", "ú", 250>>, <<"Û", "û", 251>>, <<"Ü", "ü", 252>>,
     <<"Ý", "ý", 253>>, <<"Þ", "þ", 254>>, <<"Ɓ", "", 595>>, <<"Ƃ", "ƃ", 387>>,
     <<"Ƅ", "ƅ", 389>>, <<"Ɔ", "", 596>>, <<"Ƈ", "ƈ", 392>>, <<"Ɖ", "", 598>>,
     <<"Ɗ", "", 599>>, <<"Ƌ", "ƌ", 396>>, <<"Ǝ", "ǝ", 477>>, <<"Ə", "", 601>>,
     <<"Ɛ", "", 603>>, <<"Ƒ", "ƒ", 402>>, <<"Ɠ", "", 608>>, <<"Ɣ", "", 611>>, <<"Ɩ", "", 617>>,
     <<"Ɨ", "", 616>>, <<"Ƙ", "ƙ", 409>>, <<"Ɯ", "", 623>>, <<"Ɲ", "", 626>>, <<"Ɵ", "", 629>>,
     <<"Ơ", "ơ", 417>>, <<"Ƣ", "ƣ", 419>>, <<"Ƥ", "ƥ", 421>>, <<"Ʀ", "ʀ", 640>>,
     <<"Ƨ", "ƨ", 424>>, <<"Ʃ", "ʃ", 643>>, <<"Ƭ", "ƭ", 429>>, <<"Ʈ", "ʈ", 648>>,
     <<"Ư", "ư", 432>>, <<"Ʊ", "ʊ", 650>>, <<"Ʋ", "ʋ", 651>>, <<"Ƴ", "ƴ", 436>>,
     <<"Ƶ", "ƶ", 438>>, <<"Ʒ", "ʒ", 658>>, <<"Ƹ", "ƹ", 441>>, <<"Ƽ", "ƽ", 445>>,
     <<"Ǆ", "ǆ", 454>>, <<"ǅ", "ǆ", 454>>, <<"Ǉ", "ǉ", 457>>, <<"ǈ", "ǉ", 457>>,
     <<"Ǌ", "ǌ", 460>>, <<"ǋ", "ǌ", 460>>, <<"Ǎ", "ǎ", 462>>, <<"Ǐ", "ǐ", 464>>,
     <<"Ǒ", "ǒ", 466>>, <<"Ǔ", "ǔ", 468>>, <<"Ǖ", "ǖ", 470>>, <<"Ǘ", "ǘ", 472>>,
     <<"Ǚ", "ǚ", 474>>, <<"Ǜ", "ǜ", 476>>, <<"Ǟ", "ǟ", 479>>, <<"Ǡ", "ǡ", 481>>,
     <<"Ǣ", "ǣ", 483>>, <<"Ǥ", "ǥ", 485>>, <<"Ǧ", "ǧ", 487>>, <<"Ǩ", "ǩ", 489>>,
     <<"Ǫ", "ǫ", 491>>, <<"Ǭ", "ǭ", 493>>, <<"Ǯ", "ǯ", 495>>, <<"Ǳ", "ǳ", 499>>,
     <<"ǲ", "ǳ", 499>>, <<"Ǵ", "ǵ", 501>>, <<"Ƕ", "ƕ", 405>>, <<"Ƿ", "ƿ", 447>>,
     <<"Ǹ", "ǹ", 505>>, <<"Ǻ", "ǻ", 507>>, <<"Ǽ", "ǽ", 509>>, <<"Ǿ", "ǿ", 511>>,
     <<"Ά", "ά", 940>>, <<"Έ", "έ", 941>>, <<"Ή", "ή", 942>>, <<"Ί", "ί", 943>>,
     <<"Ό", "ό", 972>>, <<"Ύ", "ύ", 973>>, <<"Ώ", "ώ", 974>>, <<"Α", "α", 945>>,
     <<"Β", "β", 946>>, <<"Γ", "γ", 947>>, <<"Δ", "δ", 948>>, <<"Ε", "ε", 949>>,
     <<"Ζ", "ζ", 950>>, <<"Η", "η", 951>>, <<"Θ", "θ", 952>>, <<"Ι", "ι", 953>>,
     <<"Κ", "κ", 954>>, <<"Λ", "λ", 955>>, <<"Μ", "μ", 956>>, <<"Ν", "ν", 957>>,
     <<"Ξ", "ξ", 958>>, <<"Ο", "ο", 959>>, <<"Π", "π", 960>>, <<"Ρ", "ρ", 961>>,
     <<"Σ", "σ", 963>>, <<"Τ", "τ", 964>>, <<"Υ", "υ", 965>>, <<"Φ", "φ", 966>>,
     <<"Χ", "χ", 967>>, <<"Ψ", "ψ", 968>>, <<"Ω", "ω", 969>>, <<"Ϊ", "ϊ", 970>>,
     <<"Ϋ", "ϋ", 971>>, <<"Ϗ", "ϗ", 983>>, <<"Ϙ", "ϙ", 985>>, <<"Ϛ", "ϛ", 987>>,
     <<"Ϝ", "ϝ", 989>>, <<"Ϟ", "ϟ", 991>>, <<"Ϡ", "ϡ", 993>>, <<"Ϣ", "ϣ", 995>>,
     <<"Ϥ", "ϥ", 997>>, <<"Ϧ", "ϧ", 999>>, <<"Ϩ", "ϩ", 1001>>, <<"Ϫ", "ϫ", 1003>>,
     <<"Ϭ", "ϭ", 1005>>, <<"Ϯ", "ϯ", 1007>>, <<"ϴ", "θ", 952>>, <<"Ϸ", "ϸ", 1016>>,
     <<"Ϲ", "ϲ", 1010>>, <<"Ϻ", "ϻ", 1019>>, <<"Ͻ", "", 891>>, <<"Ͼ", "", 892>>,
     <<"Ͽ", "", 893>>, <<"Ҁ", "ҁ", 1153>>, <<"Ҋ", "ҋ", 1163>>, <<"Ҍ", "ҍ", 1165>>,
     <<"Ҏ", "ҏ", 1167>>, <<"Ґ", "ґ", 1169>>, <<"Ғ", "ғ", 1171>>, <<"Ҕ", "ҕ", 1173>>,
     <<"Җ", "җ", 1175>>, <<"Ҙ", "ҙ", 1177>>, <<"Қ", "қ", 1179>>, <<"Ҝ", "ҝ", 1181>>,
     <<"Ҟ", "ҟ", 1183>>, <<"Ҡ", "ҡ", 1185>>, <<"Ң", "ң", 1187>>, <<"Ҥ", "ҥ", 1189>>,
     <<"Ҧ", "ҧ", 1191>>, <<"Ҩ", "ҩ", 1193>>, <<"Ҫ", "ҫ", 1195>>, <<"Ҭ", "ҭ", 1197>>,
     <<"Ү", "ү", 1199>>, <<"Ұ", "ұ", 1201>>, <<"Ҳ", "ҳ", 1203>>, <<"Ҵ", "ҵ", 1205>>,
     <<"Ҷ", "ҷ", 1207>>, <<"Ҹ", "ҹ", 1209>>, <<"Һ", "һ", 1211>>, <<"Ҽ", "ҽ", 1213>>,
     <<"Ҿ", "ҿ", 1215>>, <<"Ӏ", "ӏ", 1231>>, <<"Ӂ", "ӂ", 1218>>, <<"Ӄ", "ӄ", 1220>>,
     <<"Ӆ", "ӆ", 1222>>, <<"Ӈ", "ӈ", 1224>>, <<"Ӊ", "ӊ", 1226>>, <<"Ӌ", "ӌ", 1228>>,
     <<"Ӎ", "ӎ", 1230>>, <<"Ӑ", "ӑ", 1233>>, <<"Ӓ", "ӓ", 1235>>, <<"Ӕ", "ӕ", 1237>>,
     <<"Ӗ", "ӗ", 1239>>, <<"Ә", "ә", 1241>>, <<"Ӛ", "ӛ", 1243>>, <<"Ӝ", "ӝ", 1245>>,
     <<"Ӟ", "ӟ", 1247>>, <<"Ӡ", "ӡ", 1249>>, <<"Ӣ", "ӣ", 1251>>, <<"Ӥ", "ӥ", 1253>>,
     <<"Ӧ", "ӧ", 1255>>, <<"Ө", "ө", 1257>>, <<"Ӫ", "ӫ", 1259>>, <<"Ӭ", "ӭ", 1261>>,
     <<"Ӯ", "ӯ", 1263>>, <<"Ӱ", "ӱ", 1265>>, <<"Ӳ", "ӳ", 1267>>, <<"Ӵ", "ӵ", 1269>>,
     <<"Ӷ", "ӷ", 1271>>, <<"Ӹ", "ӹ", 1273>>, <<"Ӻ", "ӻ", 1275>>, <<"Ӽ", "ӽ", 1277>>,
     <<"Ӿ", "ӿ", 1279>>, <<"Ⴀ", "", 11520>>, <<"Ⴁ", "", 11521>>, <<"Ⴂ", "", 11522>>,
     <<"Ⴃ", "", 11523>>, <<"Ⴄ", "", 11524>>, <<"Ⴅ", "", 11525>>, <<"Ⴆ", "", 11526>>,
     <<"Ⴇ", "", 11527>>, <<"Ⴈ", "", 11528>>, <<"Ⴉ", "", 11529>>, <<"Ⴊ", "", 11530>>,
     <<"Ⴋ", "", 11531>>, <<"Ⴌ", "", 11532>>, <<"Ⴍ", "", 11533>>, <<"Ⴎ", "", 11534>>,
     <<"Ⴏ", "", 11535>>, <<"Ⴐ", "", 11536>>, <<"Ⴑ", "", 11537>>, <<"Ⴒ", "", 11538>>,
     <<"Ⴓ", "", 11539>>, <<"Ⴔ", "", 11540>>, <<"Ⴕ", "", 11541>>, <<"Ⴖ", "", 11542>>,
     <<"Ⴗ", "", 11543>>, <<"Ⴘ", "", 11544>>, <<"Ⴙ", "", 11545>>, <<"Ⴚ", "", 11546>>,
     <<"Ⴛ", "", 11547>>, <<"Ⴜ", "", 11548>>, <<"Ⴝ", "", 11549>>, <<"Ⴞ", "", 11550>>,
     <<"Ⴟ", "", 11551>>, <<"Ⴠ", "", 11552>>, <<"Ⴡ", "", 11553>>, <<"Ⴢ", "", 11554>>,
     <<"Ⴣ", "", 11555>>, <<"Ⴤ", "", 11556>>, <<"Ⴥ", "", 11557>>, <<"Ⴧ", "", 11559>>,
     <<"Ⴭ", "", 11565>>, <<"Ꭰ", "", 43888>>, <<"Ꭱ", "", 43889>>, <<"Ꭲ", "", 43890>>,
     <<"Ꭳ", "", 43891>>, <<"Ꭴ", "", 43892>>, <<"Ꭵ", "", 43893>>, <<"Ꭶ", "", 43894>>,
     <<"Ꭷ", "", 43895>>, <<"Ꭸ", "", 43896>>, <<"Ꭹ", "", 43897>>, <<"Ꭺ", "", 43898>>,
     <<"Ꭻ", "", 43899>>, <<"Ꭼ", "", 43900>>, <<"Ꭽ", "", 43901>>, <<"Ꭾ", "", 43902>>,
     <<"Ꭿ", "", 43903>>, <<"Ꮀ", "ꮀ", 43904>>, <<"Ꮁ", "ꮁ", 43905>>, <<"Ꮂ", "ꮂ", 43906>>,
     <<"Ꮃ", "ꮃ", 43907>>, <<"Ꮄ", "ꮄ", 43908>>, <<"Ꮅ", "ꮅ", 43909>>, <<"Ꮆ", "ꮆ", 43910>>,
     <<"Ꮇ", "ꮇ", 43911>>, <<"Ꮈ", "ꮈ", 43912>>, <<"Ꮉ", "ꮉ", 43913>>, <<"Ꮊ", "ꮊ", 43914>>,
     <<"Ꮋ", "ꮋ", 43915>>, <<"Ꮌ", "ꮌ", 43916>>, <<"Ꮍ", "ꮍ", 43917>>, <<"Ꮎ", "ꮎ", 43918>>,
     <<"Ꮏ", "ꮏ", 43919>>, <<"Ꮐ", "ꮐ", 43920>>, <<"Ꮑ", "ꮑ", 43921>>, <<"Ꮒ", "ꮒ", 43922>>,
     <<"Ꮓ", "ꮓ", 43923>>, <<"Ꮔ", "ꮔ", 43924>>, <<"Ꮕ", "ꮕ", 43925>>, <<"Ꮖ", "ꮖ", 43926>>,
     <<"Ꮗ", "ꮗ", 43927>>, <<"Ꮘ", "ꮘ", 43928>>, <<"Ꮙ", "ꮙ", 43929>>, <<"Ꮚ", "ꮚ", 43930>>,
     <<"Ꮛ", "ꮛ", 43931>>, <<"Ꮜ", "ꮜ", 43932>>, <<"Ꮝ", "ꮝ", 43933>>, <<"Ꮞ", "ꮞ", 43934>>,
     <<"Ꮟ", "ꮟ", 43935>>, <<"Ꮠ", "ꮠ", 43936>>, <<"Ꮡ", "ꮡ", 43937>>, <<"Ꮢ", "ꮢ", 43938>>,
     <<"Ꮣ", "ꮣ", 43939>>, <<"Ꮤ", "ꮤ", 43940>>, <<"Ꮥ", "ꮥ", 43941>>, <<"Ꮦ", "ꮦ", 43942>>,
     <<"Ꮧ", "ꮧ", 43943>>, <<"Ꮨ", "ꮨ", 43944>>, <<"Ꮩ", "ꮩ", 43945>>, <<"Ꮪ", "ꮪ", 43946>>,
     <<"Ꮫ", "ꮫ", 43947>>, <<"Ꮬ", "ꮬ", 43948>>, <<"Ꮭ", "ꮭ", 43949>>, <<"Ꮮ", "ꮮ", 43950>>,
     <<"Ꮯ", "ꮯ", 43951>>, <<"Ꮰ", "ꮰ", 43952>>, <<"Ꮱ", "ꮱ", 43953>>, <<"Ꮲ", "ꮲ", 43954>>,
     <<"Ꮳ", "ꮳ", 43955>>, <<"Ꮴ", "ꮴ", 43956>>, <<"Ꮵ", "ꮵ", 43957>>, <<"Ꮶ", "ꮶ", 43958>>,
     <<"Ꮷ", "ꮷ", 43959>>, <<"Ꮸ", "ꮸ", 43960>>, <<"Ꮹ", "ꮹ", 43961>>, <<"Ꮺ", "ꮺ", 43962>>,
     <<"Ꮻ", "ꮻ", 43963>>, <<"Ꮼ", "ꮼ", 43964>>, <<"Ꮽ", "ꮽ", 43965>>, <<"Ꮾ", "ꮾ", 43966>>,
     <<"Ꮿ", "ꮿ", 43967>>, <<"Ᏸ", "ᏸ", 5112>>, <<"Ᏹ", "ᏹ", 5113>>, <<"Ᏺ", "ᏺ", 5114>>,
     <<"Ᏻ", "ᏻ", 5115>>, <<"Ᏼ", "ᏼ", 5116>>, <<"Ᏽ", "ᏽ", 5117>>, <<"Ᲊ", "ᲊ", 7306>>,
     <<"Ა", "ა", 4304>>, <<"Ბ", "ბ", 4305>>, <<"Გ", "გ", 4306>>, <<"Დ", "დ", 4307>>,
     <<"Ე", "ე", 4308>>, <<"Ვ", "ვ", 4309>>, <<"Ზ", "ზ", 4310>>, <<"Თ", "თ", 4311>>,
     <<"Ი", "ი", 4312>>, <<"Კ", "კ", 4313>>, <<"Ლ", "ლ", 4314>>, <<"Მ", "მ", 4315>>,
     <<"Ნ", "ნ", 4316>>, <<"Ო", "ო", 4317>>, <<"Პ", "პ", 4318>>, <<"Ჟ", "ჟ", 4319>>,
     <<"Რ", "რ", 4320>>, <<"Ს", "ს", 4321>>, <<"Ტ", "ტ", 4322>>, <<"Უ", "უ", 4323>>,
     <<"Ფ", "ფ", 4324>>, <<"Ქ", "ქ", 4325>>, <<"Ღ", "ღ", 4326>>, <<"Ყ", "ყ", 4327>>,
     <<"Შ", "შ", 4328>>, <<"Ჩ", "ჩ", 4329>>, <<"Ც", "ც", 4330>>, <<"Ძ", "ძ", 4331>>,
     <<"Წ", "წ", 4332>>, <<"Ჭ", "ჭ", 4333>>, <<"Ხ", "ხ", 4334>>, <<"Ჯ", "ჯ", 4335>>,
     <<"Ჰ", "ჰ", 4336>>, <<"Ჱ", "ჱ", 4337>>, <<"Ჲ", "ჲ", 4338>>, <<"Ჳ", "ჳ", 4339>>,
     <<"Ჴ", "ჴ", 4340>>, <<"Ჵ", "ჵ", 4341>>, <<"Ჶ", "ჶ", 4342>>, <<"Ჷ", "ჷ", 4343>>,
     <<"Ჸ", "ჸ", 4344>>, <<"Ჹ", "ჹ", 4345>>, <<"Ჺ", "ჺ", 4346>>, <<"Ჽ", "ჽ", 4349>>,
     <<"Ჾ", "ჾ", 4350>>, <<"Ჿ", "ჿ", 4351>>, <<"Ẁ", "ẁ", 7809>>, <<"Ẃ", "ẃ", 7811>>,
     <<"Ẅ", "ẅ", 7813>>, <<"Ẇ", "ẇ", 7815>>, <<"Ẉ", "ẉ", 7817>>, <<"Ẋ", "ẋ", 7819>>,
     <<"Ẍ", "ẍ", 7821>>, <<"Ẏ", "ẏ", 7823>>, <<"Ẑ", "ẑ", 7825>>, <<"Ẓ", "ẓ", 7827>>,
     <<"Ẕ", "ẕ", 7829>>, <<"ẞ", "ß", 223>>, <<"Ạ", "ạ", 7841>>, <<"Ả", "ả", 7843>>,
     <<"Ấ", "ấ", 7845>>, <<"Ầ", "ầ", 7847>>, <<"Ẩ", "ẩ", 7849>>, <<"Ẫ", "ẫ", 7851>>,
     <<"Ậ", "ậ", 7853>>, <<"Ắ", "ắ", 7855>>, <<"Ằ", "ằ", 7857>>, <<"Ẳ", "ẳ", 7859>>,
     <<"Ẵ", "ẵ", 7861>>, <<"Ặ", "ặ", 7863>>, <<"Ẹ", "ẹ", 7865>>, <<"Ẻ", "ẻ", 7867>>,
     <<"Ẽ", "ẽ", 7869>>, <<"Ế", "ế", 7871>>, <<"Ề", "ề", 7873>>, <<"Ể", "ể", 7875>>,
     <<"Ễ", "ễ", 7877>>, <<"Ệ", "ệ", 7879>>, <<"Ỉ", "ỉ", 7881>>, <<"Ị", "ị", 7883>>,
     <<"Ọ", "ọ", 7885>>, <<"Ỏ", "ỏ", 7887>>, <<"Ố", "ố", 7889>>, <<"Ồ", "ồ", 7891>>,
     <<"Ổ", "ổ", 7893>>, <<"Ỗ", "ỗ", 7895>>, <<"Ộ", "ộ", 7897>>, <<"Ớ", "ớ", 7899>>,
     <<"Ờ", "ờ", 7901>>, <<"Ở", "ở", 7903>>, <<"Ỡ", "ỡ", 7905>>, <<"Ợ", "ợ", 7907>>,
     <<"Ụ", "ụ", 7909>>, <<"Ủ", "ủ", 7911>>, <<"Ứ", "ứ", 7913>>, <<"Ừ", "ừ", 7915>>,
     <<"Ử", "ử", 7917>>, <<"Ữ", "ữ", 7919>>, <<"Ự", "ự", 7921>>, <<"Ỳ", "ỳ", 7923>>,
     <<"Ỵ", "ỵ", 7925>>, <<"Ỷ", "ỷ", 7927>>, <<"Ỹ", "ỹ", 7929>>, <<"Ỻ", "ỻ", 7931>>,
     <<"Ỽ", "ỽ", 7933>>, <<"Ỿ", "ỿ", 7935>>, <<"ᾈ", "ᾀ", 8064>>, <<"ᾉ", "ᾁ", 8065>>,
     <<"ᾊ", "ᾂ", 8066>>, <<"ᾋ", "ᾃ", 8067>>, <<"ᾌ", "ᾄ", 8068>>, <<"ᾍ", "ᾅ", 8069>>,
     <<"ᾎ", "ᾆ", 8070>>, <<"ᾏ", "ᾇ", 8071>>, <<"ᾘ", "ᾐ", 8080>>, <<"ᾙ", "ᾑ", 8081>>,
     <<"ᾚ", "ᾒ", 8082>>, <<"ᾛ", "ᾓ", 8083>>, <<"ᾜ", "ᾔ", 8084>>, <<"ᾝ", "ᾕ", 8085>>,
     <<"ᾞ", "ᾖ", 8086>>, <<"ᾟ", "ᾗ", 8087>>, <<"ᾨ", "ᾠ", 8096>>, <<"ᾩ", "ᾡ", 8097>>,
     <<"ᾪ", "ᾢ", 8098>>, <<"ᾫ", "ᾣ", 8099>>, <<"ᾬ", "ᾤ", 8100>>, <<"ᾭ", "ᾥ", 8101>>,
     <<"ᾮ", "ᾦ", 8102>>, <<"ᾯ", "ᾧ", 8103>>, <<"Ᾰ", "ᾰ", 8112>>, <<"Ᾱ", "ᾱ", 8113>>,
     <<"Ὰ", "", 8048>>, <<"Ά", "", 8049>>, <<"ᾼ", "ᾳ", 8115>>, <<"Ὲ", "", 8050>>,
     <<"Έ", "", 8051>>, <<"Ὴ", "", 8052>>, <<"Ή", "", 8053>>, <<"ῌ", "ῃ", 8131>>,
     <<"Ῐ", "ῐ", 8144>>, <<"Ῑ", "ῑ", 8145>>, <<"Ὶ", "", 8054>>, <<"Ί", "", 8055>>,
     <<"Ῠ", "ῠ", 8160>>, <<"Ῡ", "ῡ", 8161>>, <<"Ὺ", "", 8058>>, <<"Ύ", "", 8059>>,
     <<"Ῥ", "ῥ", 8165>>, <<"Ὸ", "", 8056>>, <<"Ό", "", 8057>>, <<"Ὼ", "", 8060>>,
     <<"Ώ", "", 8061>>, <<"ῼ", "ῳ", 8179>>, <<"Ↄ", "ↄ", 8580>>, <<"Ⓐ", "ⓐ", 9424>>,
     <<"Ⓑ", "ⓑ", 9425>>, <<"Ⓒ", "ⓒ", 9426>>, <<"Ⓓ", "ⓓ", 9427>>, <<"Ⓔ", "ⓔ", 9428>>,
     <<"Ⓕ", "ⓕ", 9429>>, <<"Ⓖ", "ⓖ", 9430>>, <<"Ⓗ", "ⓗ", 9431>>, <<"Ⓘ", "ⓘ", 9432>>,
     <<"Ⓙ", "ⓙ", 9433>>, <<"Ⓚ", "ⓚ", 9434>>, <<"Ⓛ", "ⓛ", 9435>>, <<"Ⓜ", "ⓜ", 9436>>,
     <<"Ⓝ", "ⓝ", 9437>>, <<"Ⓞ", "ⓞ", 9438>>, <<"Ⓟ", "ⓟ", 9439>>, <<"Ⓠ", "ⓠ", 9440>>,
     <<"Ⓡ", "ⓡ", 9441>>, <<"Ⓢ", "ⓢ", 9442>>, <<"Ⓣ", "ⓣ", 9443>>, <<"Ⓤ", "ⓤ", 9444>>,
     <<"Ⓥ", "ⓥ", 9445>>, <<"Ⓦ", "ⓦ", 9446>>, <<"Ⓧ", "ⓧ", 9447>>, <<"Ⓨ", "ⓨ", 9448>>,
     <<"Ⓩ", "ⓩ", 9449>>, <<"Ⲁ", "ⲁ", 11393>>, <<"Ⲃ", "ⲃ", 11395>>, <<"Ⲅ", "ⲅ", 11397>>,
     <<"Ⲇ", "ⲇ", 11399>>, <<"Ⲉ", "ⲉ", 11401>>, <<"Ⲋ", "ⲋ", 11403>>, <<"Ⲍ", "ⲍ", 11405>>,
     <<"Ⲏ", "ⲏ", 11407>>, <<"Ⲑ", "ⲑ", 11409>>, <<"Ⲓ", "ⲓ", 11411>>, <<"Ⲕ", "ⲕ", 11413>>,
     <<"Ⲗ", "ⲗ", 11415>>, <<"Ⲙ", "ⲙ", 11417>>, <<"Ⲛ", "ⲛ", 11419>>, <<"Ⲝ", "ⲝ", 11421>>,
     <<"Ⲟ", "ⲟ", 11423>>, <<"Ⲡ", "ⲡ", 11425>>, <<"Ⲣ", "ⲣ", 11427>>, <<"Ⲥ", "ⲥ", 11429>>,
     <<"Ⲧ", "ⲧ", 11431>>, <<"Ⲩ", "ⲩ", 11433>>, <<"Ⲫ", "ⲫ", 11435>>, <<"Ⲭ", "ⲭ", 11437>>,
     <<"Ⲯ", "ⲯ", 11439>>, <<"Ⲱ", "ⲱ", 11441>>, <<"Ⲳ", "ⲳ", 11443>>, <<"Ⲵ", "ⲵ", 11445>>,
     <<"Ⲷ", "ⲷ", 11447>>, <<"Ⲹ", "ⲹ", 11449>>, <<"Ⲻ", "ⲻ", 11451>>, <<"Ⲽ", "ⲽ", 11453>>,
     <<"Ⲿ", "ⲿ", 11455>>, <<"Ⳁ", "ⳁ", 11457>>, <<"Ⳃ", "ⳃ", 11459>>, <<"Ⳅ", "ⳅ", 11461>>,
     <<"Ⳇ", "ⳇ", 11463>>, <<"Ⳉ", "ⳉ", 11465>>, <<"Ⳋ", "ⳋ", 11467>>, <<"Ⳍ", "ⳍ", 11469>>,
     <<"Ⳏ", "ⳏ", 11471>>, <<"Ⳑ", "ⳑ", 11473>>, <<"Ⳓ", "ⳓ", 11475>>, <<"Ⳕ", "ⳕ", 11477>>,
     <<"Ⳗ", "ⳗ", 11479>>, <<"Ⳙ", "ⳙ", 11481>>, <<"Ⳛ", "ⳛ", 11483>>, <<"Ⳝ", "ⳝ", 11485>>,
     <<"Ⳟ", "ⳟ", 11487>>, <<"Ⳡ", "ⳡ", 11489>>, <<"Ⳣ", "ⳣ", 11491>>, <<"Ⳬ", "ⳬ", 11500>>,
     <<"Ⳮ", "ⳮ", 11502>>, <<"Ⳳ", "ⳳ", 11507>>, <<"Ꚁ", "ꚁ", 42625>>, <<"Ꚃ", "ꚃ", 42627>>,
     <<"Ꚅ", "ꚅ", 42629>>, <<"Ꚇ", "ꚇ", 42631>>, <<"Ꚉ", "ꚉ", 42633>>, <<"Ꚋ", "ꚋ", 42635>>,
     <<"Ꚍ", "ꚍ", 42637>>, <<"Ꚏ", "ꚏ", 42639>>, <<"Ꚑ", "ꚑ", 42641>>, <<"Ꚓ", "ꚓ", 42643>>,
     <<"Ꚕ", "ꚕ", 42645>>, <<"Ꚗ", "ꚗ", 42647>>, <<"Ꚙ", "ꚙ", 42649>>, <<"Ꚛ", "ꚛ", 42651>>,
     <<"Ꞁ", "ꞁ", 42881>>, <<"Ꞃ", "ꞃ", 42883>>, <<"Ꞅ", "ꞅ", 42885>>, <<"Ꞇ", "ꞇ", 42887>>,
     <<"Ꞌ", "ꞌ", 42892>>, <<"Ɥ", "", 613>>, <<"Ꞑ", "ꞑ", 42897>>, <<"Ꞓ", "ꞓ", 42899>>,
     <<"Ꞗ", "ꞗ", 42903>>, <<"Ꞙ", "ꞙ", 42905>>, <<"Ꞛ", "ꞛ", 42907>>, <<"Ꞝ", "ꞝ", 42909>>,
     <<"Ꞟ", "ꞟ", 42911>>, <<"Ꞡ", "ꞡ", 42913>>, <<"Ꞣ", "ꞣ", 42915>>, <<"Ꞥ", "ꞥ", 42917>>,
     <<"Ꞧ", "ꞧ", 42919>>, <<"Ꞩ", "ꞩ", 42921>>, <<"Ɦ", "", 614>>, <<"Ɜ", "", 604>>,
     <<"Ɡ", "", 609>>, <<"Ɬ", "", 620>>, <<"Ɪ", "", 618>>, <<"Ʞ", "ʞ", 670>>,
     <<"Ʇ", "ʇ", 647>>, <<"Ʝ", "ʝ", 669>>, <<"Ꭓ", "", 43859>>, <<"Ꞵ", "ꞵ", 42933>>,
     <<"Ꞷ", "ꞷ", 42935>>, <<"Ꞹ", "ꞹ", 42937>>, <<"Ꞻ", "ꞻ", 42939>>, <<"Ꞽ", "ꞽ", 42941>>,
     <<"Ꞿ", "ꞿ", 42943>>, <<"Ꟁ", "ꟁ", 42945>>, <<"Ꟃ", "ꟃ", 42947>>, <<"Ꞔ", "ꞔ", 42900>>,
     <<"Ʂ", "ʂ", 642>>, <<"Ᶎ", "ᶎ", 7566>>, <<"Ꟈ", "ꟈ", 42952>>, <<"Ꟊ", "ꟊ", 42954>>,
     <<"Ɤ", "", 612>>, <<"Ꟍ", "ꟍ", 42957>>, <<"꟎", "꟏", 42959>>, <<"Ꟑ", "ꟑ", 42961>>,
     <<"꟒", "ꟓ", 42963>>, <<"꟔", "ꟕ", 42965>>, <<"Ꟗ", "ꟗ", 42967>>, <<"Ꟙ", "ꟙ", 42969>>,
     <<"Ꟛ", "ꟛ", 42971>>, <<"Ƛ", "ƛ", 411>>, <<"Ꟶ", "ꟶ", 42998>>}

\* core::unicode::Case_Ignorable, on the same characters (the grave accent U+0060, which
\* no string here can hold, left out)
Case_Ignorable ==
    {"'", ".", ":", "^", "¨", "­", "¯", "´", "·", "¸", "ʰ", "ʱ", "ʲ", "ʳ", "ʴ", "ʵ", "ʶ", "ʷ",
     "ʸ", "ʹ", "ʺ", "ʻ", "ʼ", "ʽ", "ʾ", "ʿ", "ˀ", "ˁ", "˂", "˃", "˄", "˅", "ˆ", "ˇ", "ˈ", "ˉ",
     "ˊ", "ˋ", "ˌ", "ˍ", "ˎ", "ˏ", "ː", "ˑ", "˒", "˓", "˔", "˕", "˖", "˗", "˘", "˙", "˚", "˛",
     "˜", "˝", "˞", "˟", "ˠ", "ˡ", "ˢ", "ˣ", "ˤ", "˥", "˦", "˧", "˨", "˩", "˪", "˫", "ˬ", "˭",
     "ˮ", "˯", "˰", "˱", "˲", "˳", "˴", "˵", "˶", "˷", "˸", "˹", "˺", "˻", "˼", "˽", "˾", "˿",
     "΄", "΅", "·", "҃", "҄", "҅", "҆", "҇", "҈", "҉", "֑", "֒", "֓", "֔", "֕", "֖", "֗", "֘",
     "֙", "֚", "֛", "֜", "֝", "֞", "֟", "֠", "֡", "֢", "֣", "֤", "֥", "֦", "֧", "֨", "֩", "֪",
     "֫", "֬", "֭", "֮", "֯", "ְ", "ֱ", "ֲ", "ֳ", "ִ", "ֵ", "ֶ", "ַ", "ָ", "ֹ", "ֺ", "ֻ", "ּ",
     "ֽ", "ֿ", "ׁ", "ׂ", "ׄ", "ׅ", "ׇ", "״", "ۖ", "ۗ", "ۘ", "ۙ", "ۚ", "ۛ", "ۜ", "۝", "۟", "۠",
     "ۡ", "ۢ", "ۣ", "ۤ", "ۥ", "ۦ", "ۧ", "ۨ", "۪", "۫", "۬", "ۭ", "ަ", "ާ", "ި", "ީ", "ު", "ޫ",
     "ެ", "ޭ", "ޮ", "ޯ", "ް", "߫", "߬", "߭", "߮", "߯", "߰", "߱", "߲", "߳", "ߴ", "ߵ", "ߺ", "߽",
     "࢈", "࢐", "࢑", "ࢗ", "࢘", "࢙", "࢚", "࢛", "࢜", "࢝", "࢞", "࢟", "ࣉ", "࣊", "࣋", "࣌", "࣍", "࣎",
     "࣏", "࣐", "࣑", "࣒", "࣓", "ࣔ", "ࣕ", "ࣖ", "ࣗ", "ࣘ", "ࣙ", "ࣚ", "ࣛ", "ࣜ", "ࣝ", "ࣞ", "ࣟ", "࣠",
     "࣡", "࣢", "ࣣ", "ࣤ", "ࣥ", "ࣦ", "ࣧ", "ࣨ", "ࣩ", "࣪", "࣫", "࣬", "࣭", "࣮", "࣯", "ࣰ", "ࣱ", "ࣲ",
     "ࣳ", "ࣴ", "ࣵ", "ࣶ", "ࣷ", "ࣸ", "ࣹ", "ࣺ", "ࣻ", "ࣼ", "ࣽ", "ࣾ", "ࣿ", "ঁ", "়", "ু", "ূ", "ৃ",
     "ৄ", "্", "ৢ", "ৣ", "৾", "ઁ", "ં", "઼", "ુ", "ૂ", "ૃ", "ૄ", "ૅ", "ે", "ૈ", "્", "ૢ", "ૣ",
     "ૺ", "ૻ", "ૼ", "૽", "૾", "૿", "ஂ", "ீ", "்", "ಁ", "಼", "ಿ", "ೆ", "ೌ", "್", "ೢ", "ೣ", "ඁ",
     "්", "ි", "ී", "ු", "ූ", "ັ", "ິ", "ີ", "ຶ", "ື", "ຸ", "ູ", "຺", "ົ", "ຼ", "ໆ", "່", "້",
     "໊", "໋", "໌", "ໍ", "໎", "ྀ", "ཱྀ", "ྂ", "ྃ", "྄", "྆", "྇", "ྍ", "ྎ", "ྏ", "ྐ", "ྑ", "ྒ",
     "ྒྷ", "ྔ", "ྕ", "ྖ", "ྗ", "ྙ", "ྚ", "ྛ", "ྜ", "ྜྷ", "ྞ", "ྟ", "ྠ", "ྡ", "ྡྷ", "ྣ", "ྤ", "ྥ",
     "ྦ", "ྦྷ", "ྨ", "ྩ", "ྪ", "ྫ", "ྫྷ", "ྭ", "ྮ", "ྯ", "ྰ", "ྱ", "ྲ", "ླ", "ྴ", "ྵ", "ྶ", "ྷ",
     "ྸ", "ྐྵ", "ྺ", "ྻ", "ྼ", "࿆", "ႂ", "ႅ", "ႆ", "ႍ", "ႝ", "ჼ", "឴", "឵", "ិ", "ី", "ឹ", "ឺ",
     "ុ", "ូ", "ួ", "ំ", "៉", "៊", "់", "៌", "៍", "៎", "៏", "័", "៑", "្", "៓", "ៗ", "៝", "ᢅ",
     "ᢆ", "ᢩ", "ᪧ", "᪰", "᪱", "᪲", "᪳", "᪴", "᪵", "᪶", "᪷", "᪸", "᪹", "᪺", "᪻", "᪼", "᪽", "᪾",
     "ᪿ", "ᫀ", "᫁", "᫂", "᫃", "᫄", "᫅", "᫆", "᫇", "᫈", "᫉", "᫊", "᫋", "ᫌ", "ᫍ", "ᫎ", "᫏", "᫐",
     "᫑", "᫒", "᫓", "᫔", "᫕", "᫖", "᫗", "᫘", "᫙", "᫚", "᫛", "᫜", "᫝", "᫠", "᫡", "᫢", "᫣", "᫤",
     "᫥", "᫦", "᫧", "᫨", "᫩", "᫪", "᫫", "ᮀ", "ᮁ", "ᮢ", "ᮣ", "ᮤ", "ᮥ", "ᮨ", "ᮩ", "᮫", "ᮬ", "ᮭ",
     "᯦", "ᯨ", "ᯩ", "ᯭ", "ᯯ", "ᯰ", "ᯱ", "᳐", "᳑", "᳒", "᳔", "᳕", "᳖", "᳗", "᳘", "᳙", "᳚", "᳛",
     "᳜", "᳝", "᳞", "᳟", "᳠", "᳢", "᳣", "᳤", "᳥", "᳦", "᳧", "᳨", "᳭", "᳴", "᳸", "᳹", "ᶛ", "ᶜ",
     "ᶝ", "ᶞ", "ᶟ", "ᶠ", "ᶡ", "ᶢ", "ᶣ", "ᶤ", "ᶥ", "ᶦ", "ᶧ", "ᶨ", "ᶩ", "ᶪ", "ᶫ", "ᶬ", "ᶭ", "ᶮ",
     "ᶯ", "ᶰ", "ᶱ", "ᶲ", "ᶳ", "ᶴ", "ᶵ", "ᶶ", "ᶷ", "ᶸ", "ᶹ", "ᶺ", "ᶻ", "ᶼ", "ᶽ", "ᶾ", "ᶿ", "᷀",
     "᷁", "᷂", "᷃", "᷄", "᷅", "᷆", "᷇", "᷈", "᷉", "᷊", "᷋", "᷌", "᷍", "᷎", "᷏", "᷐", "᷑", "᷒",
     "ᷓ", "ᷔ", "ᷕ", "ᷖ", "ᷗ", "ᷘ", "ᷙ", "ᷚ", "ᷛ", "ᷜ", "ᷝ", "ᷞ", "ᷟ", "ᷠ", "ᷡ", "ᷢ", "ᷣ", "ᷤ",
     "ᷥ", "ᷦ", "ᷧ", "ᷨ", "ᷩ", "ᷪ", "ᷫ", "ᷬ", "ᷭ", "ᷮ", "ᷯ", "ᷰ", "ᷱ", "ᷲ", "ᷳ", "ᷴ", "᷵", "᷶",
     "᷷", "᷸", "᷹", "᷺", "᷻", "᷼", "᷽", "᷾", "᷿", "᾽", "᾿", "῀", "῁", "῍", "῎", "῏", "῝", "῞",
     "῟", "῭", "΅", "`", "´", "῾", "ₐ", "ₑ", "ₒ", "ₓ", "ₔ", "ₕ", "ₖ", "ₗ", "ₘ", "ₙ", "ₚ", "ₛ",
     "ₜ", "⃐", "⃑", "⃒", "⃓", "⃔", "⃕", "⃖", "⃗", "⃘", "⃙", "⃚", "⃛", "⃜", "⃝", "⃞", "⃟", "⃠",
     "⃡", "⃢", "⃣", "⃤", "⃥", "⃦", "⃧", "⃨", "⃩", "⃪", "⃫", "⃬", "⃭", "⃮", "⃯", "⃰", "⳯", "⳰",
     "⳱", "ⷠ", "ⷡ", "ⷢ", "ⷣ", "ⷤ", "ⷥ", "ⷦ", "ⷧ", "ⷨ", "ⷩ", "ⷪ", "ⷫ", "ⷬ", "ⷭ", "ⷮ", "ⷯ", "ⷰ",
     "ⷱ", "ⷲ", "ⷳ", "ⷴ", "ⷵ", "ⷶ", "ⷷ", "ⷸ", "ⷹ", "ⷺ", "ⷻ", "ⷼ", "ⷽ", "ⷾ", "ⷿ", "゙", "゚", "゛",
     "゜", "ゝ", "ゞ", "ー", "ヽ", "ヾ", "ꓸ", "ꓹ", "ꓺ", "ꓻ", "ꓼ", "ꓽ", "ꚜ", "ꚝ", "ꚞ", "ꚟ", "꛰", "꛱",
     "ꞈ", "꞉", "꞊", "꟱", "ꟲ", "ꟳ", "ꟴ", "ꟸ", "ꟹ", "꣄", "ꣅ", "꣠", "꣡", "꣢", "꣣", "꣤", "꣥", "꣦",
     "꣧", "꣨", "꣩", "꣪", "꣫", "꣬", "꣭", "꣮", "꣯", "꣰", "꣱", "ꣿ", "ꦀ", "ꦁ", "ꦂ", "꦳", "ꦶ", "ꦷ",
     "ꦸ", "ꦹ", "ꦼ", "ꦽ", "ꧏ", "ꧥ", "ꧦ", "ꪰ", "ꪲ", "ꪳ", "ꪴ", "ꪷ", "ꪸ", "ꪾ", "꪿", "꫁", "ꫝ", "ꫬ",
     "ꫭ", "ꫳ", "ꫴ", "꫶", "ꯥ", "ꯨ", "꯭", "﮲", "﮳", "﮴", "﮵", "﮶", "﮷", "﮸", "﮹", "﮺", "﮻", "﮼",
     "﮽", "﮾", "﮿", "﯀", "﯁", "﯂", "﻿", "ﾞ", "ﾟ", "￣", "￹", "￺", "￻"}

\* core::unicode::Cased, on the same characters
Cased ==
    {"A", "B", "C", "D", "E", "F", "G", "H", "I", "J", "K", "L", "M", "N", "O", "P", "Q", "R",
     "S", "T", "U", "V", "W", "X", "Y", "Z", "a", "b", "c", "d", "e", "f", "g", "h", "i", "j",
     "k", "l", "m", "n", "o", "p", "q", "r", "s", "t", "u", "v", "w", "x", "y", "z", "ª", "µ",
     "º", "À", "Á", "Â", "Ã", "Ä", "Å", "Æ", "Ç", "È", "É", "Ê", "Ë", "Ì", "Í", "Î", "Ï", "Ð",
     "Ñ", "Ò", "Ó", "Ô", "Õ", "Ö", "Ø", "Ù", "Ú", "Û", "Ü", "Ý", "Þ", "ß", "à", "á", "â", "ã",
     "ä", "å", "æ", "ç", "è", "é", "ê", "ë", "ì", "í", "î", "ï", "ð", "ñ", "ò", "ó", "ô", "õ",
     "ö", "ø", "ù", "ú", "û", "ü", "ý", "þ", "ÿ", "ƀ", "Ɓ", "Ƃ", "ƃ", "Ƅ", "ƅ", "Ɔ", "Ƈ", "ƈ",
     "Ɖ", "Ɗ", "Ƌ", "ƌ", "ƍ", "Ǝ", "Ə", "Ɛ", "Ƒ", "ƒ", "Ɠ", "Ɣ", "ƕ", "Ɩ", "Ɨ", "Ƙ", "ƙ", "ƚ",
     "ƛ", "Ɯ", "Ɲ", "ƞ", "Ɵ", "Ơ", "ơ", "Ƣ", "ƣ", "Ƥ", "ƥ", "Ʀ", "Ƨ", "ƨ", "Ʃ", "ƪ", "ƫ", "Ƭ",
     "ƭ", "Ʈ", "Ư", "ư", "Ʊ", "Ʋ", "Ƴ", "ƴ", "Ƶ", "ƶ", "Ʒ", "Ƹ", "ƹ", "ƺ", "Ƽ", "ƽ", "ƾ", "ƿ",
     "Ǆ", "ǅ", "ǆ", "Ǉ", "ǈ", "ǉ", "Ǌ", "ǋ", "ǌ", "Ǎ", "ǎ", "Ǐ", "ǐ", "Ǒ", "ǒ", "Ǔ", "ǔ", "Ǖ",
     "ǖ", "Ǘ", "ǘ", "Ǚ", "ǚ", "Ǜ", "ǜ", "ǝ", "Ǟ", "ǟ", "Ǡ", "ǡ", "Ǣ", "ǣ", "Ǥ", "ǥ", "Ǧ", "ǧ",
     "Ǩ", "ǩ", "Ǫ", "ǫ", "Ǭ", "ǭ", "Ǯ", "ǯ", "ǰ", "Ǳ", "ǲ", "ǳ", "Ǵ", "ǵ", "Ƕ", "Ƿ", "Ǹ", "ǹ",
     "Ǻ", "ǻ", "Ǽ", "ǽ", "Ǿ", "ǿ", "ʀ", "ʁ", "ʂ", "ʃ", "ʄ", "ʅ", "ʆ", "ʇ", "ʈ", "ʉ", "ʊ", "ʋ",
     "ʌ", "ʍ", "ʎ", "ʏ", "ʐ", "ʑ", "ʒ", "ʓ", "ʖ", "ʗ", "ʘ", "ʙ", "ʚ", "ʛ", "ʜ", "ʝ", "ʞ", "ʟ",
     "ʠ", "ʡ", "ʢ", "ʣ", "ʤ", "ʥ", "ʦ", "ʧ", "ʨ", "ʩ", "ʪ", "ʫ", "ʬ", "ʭ", "ʮ", "ʯ", "ʰ", "ʱ",
     "ʲ", "ʳ", "ʴ", "ʵ", "ʶ", "ʷ", "ʸ", "ˀ", "ˁ", "ˠ", "ˡ", "ˢ", "ˣ", "ˤ", "Ά", "Έ", "Ή", "Ί",
     "Ό", "Ύ", "Ώ", "ΐ", "Α", "Β", "Γ", "Δ", "Ε", "Ζ", "Η", "Θ", "Ι", "Κ", "Λ", "Μ", "Ν", "Ξ",
     "Ο", "Π", "Ρ", "Σ", "Τ", "Υ", "Φ", "Χ", "Ψ", "Ω", "Ϊ", "Ϋ", "ά", "έ", "ή", "ί", "ΰ", "α",
     "β", "γ", "δ", "ε", "ζ", "η", "θ", "ι", "κ", "λ", "μ", "ν", "ξ", "ο", "π", "ρ", "ς", "σ",
     "τ", "υ", "φ", "χ", "ψ", "ω", "ϊ", "ϋ", "ό", "ύ", "ώ", "Ϗ", "ϐ", "ϑ", "ϒ", "ϓ", "ϔ", "ϕ",
     "ϖ", "ϗ", "Ϙ", "ϙ", "Ϛ", "ϛ", "Ϝ", "ϝ", "Ϟ", "ϟ", "Ϡ", "ϡ", "Ϣ", "ϣ", "Ϥ", "ϥ", "Ϧ", "ϧ",
     "Ϩ", "ϩ", "Ϫ", "ϫ", "Ϭ", "ϭ", "Ϯ", "ϯ", "ϰ", "ϱ", "ϲ", "ϳ", "ϴ", "ϵ", "Ϸ", "ϸ", "Ϲ", "Ϻ",
     "ϻ", "ϼ", "Ͻ", "Ͼ", "Ͽ", "Ҁ", "ҁ", "Ҋ", "ҋ", "Ҍ", "ҍ", "Ҏ", "ҏ", "Ґ", "ґ", "Ғ", "ғ", "Ҕ",
     "ҕ", "Җ", "җ", "Ҙ", "ҙ", "Қ", "қ", "Ҝ", "ҝ", "Ҟ", "ҟ", "Ҡ", "ҡ", "Ң", "ң", "Ҥ", "ҥ", "Ҧ",
     "ҧ", "Ҩ", "ҩ", "Ҫ", "ҫ", "Ҭ", "ҭ", "Ү", "ү", "Ұ", "ұ", "Ҳ", "ҳ", "Ҵ", "ҵ", "Ҷ", "ҷ", "Ҹ",
     "ҹ", "Һ", "һ", "Ҽ", "ҽ", "Ҿ", "ҿ", "Ӏ", "Ӂ", "ӂ", "Ӄ", "ӄ", "Ӆ", "ӆ", "Ӈ", "ӈ", "Ӊ", "ӊ",
     "Ӌ", "ӌ", "Ӎ", "ӎ", "ӏ", "Ӑ", "ӑ", "Ӓ", "ӓ", "Ӕ", "ӕ", "Ӗ", "ӗ", "Ә", "ә", "Ӛ", "ӛ", "Ӝ",
     "ӝ", "Ӟ", "ӟ", "Ӡ", "ӡ", "Ӣ", "ӣ", "Ӥ", "ӥ", "Ӧ", "ӧ", "Ө", "ө", "Ӫ", "ӫ", "Ӭ", "ӭ", "Ӯ",
     "ӯ", "Ӱ", "ӱ", "Ӳ", "ӳ", "Ӵ", "ӵ", "Ӷ", "ӷ", "Ӹ", "ӹ", "Ӻ", "ӻ", "Ӽ", "ӽ", "Ӿ", "ӿ", "ր",
     "ց", "ւ", "փ", "ք", "օ", "ֆ", "և", "ֈ", "Ⴀ", "Ⴁ", "Ⴂ", "Ⴃ", "Ⴄ", "Ⴅ", "Ⴆ", "Ⴇ", "Ⴈ", "Ⴉ",
     "Ⴊ", "Ⴋ", "Ⴌ", "Ⴍ", "Ⴎ", "Ⴏ", "Ⴐ", "Ⴑ", "Ⴒ", "Ⴓ", "Ⴔ", "Ⴕ", "Ⴖ", "Ⴗ", "Ⴘ", "Ⴙ", "Ⴚ", "Ⴛ",
     "Ⴜ", "Ⴝ", "Ⴞ", "Ⴟ", "Ⴠ", "Ⴡ", "Ⴢ", "Ⴣ", "Ⴤ", "Ⴥ", "Ⴧ", "Ⴭ", "ა", "ბ", "გ", "დ", "ე", "ვ",
     "ზ", "თ", "ი", "კ", "ლ", "მ", "ნ", "ო", "პ", "ჟ", "რ", "ს", "ტ", "უ", "ფ", "ქ", "ღ", "ყ",
     "შ", "ჩ", "ც", "ძ", "წ", "ჭ", "ხ", "ჯ", "ჰ", "ჱ", "ჲ", "ჳ", "ჴ", "ჵ", "ჶ", "ჷ", "ჸ", "ჹ",
     "ჺ", "ჼ", "ჽ", "ჾ", "ჿ", "Ꭰ", "Ꭱ", "Ꭲ", "Ꭳ", "Ꭴ", "Ꭵ", "Ꭶ", "Ꭷ", "Ꭸ", "Ꭹ", "Ꭺ", "Ꭻ", "Ꭼ",
     "Ꭽ", "Ꭾ", "Ꭿ", "Ꮀ", "Ꮁ", "Ꮂ", "Ꮃ", "Ꮄ", "Ꮅ", "Ꮆ", "Ꮇ", "Ꮈ", "Ꮉ", "Ꮊ", "Ꮋ", "Ꮌ", "Ꮍ", "Ꮎ",
     "Ꮏ", "Ꮐ", "Ꮑ", "Ꮒ", "Ꮓ", "Ꮔ", "Ꮕ", "Ꮖ", "Ꮗ", "Ꮘ", "Ꮙ", "Ꮚ", "Ꮛ", "Ꮜ", "Ꮝ", "Ꮞ", "Ꮟ", "Ꮠ",
     "Ꮡ", "Ꮢ", "Ꮣ", "Ꮤ", "Ꮥ", "Ꮦ", "Ꮧ", "Ꮨ", "Ꮩ", "Ꮪ", "Ꮫ", "Ꮬ", "Ꮭ", "Ꮮ", "Ꮯ", "Ꮰ", "Ꮱ", "Ꮲ",
     "Ꮳ", "Ꮴ", "Ꮵ", "Ꮶ", "Ꮷ", "Ꮸ", "Ꮹ", "Ꮺ", "Ꮻ", "Ꮼ", "Ꮽ", "Ꮾ", "Ꮿ", "Ᏸ", "Ᏹ", "Ᏺ", "Ᏻ", "Ᏼ",
     "Ᏽ", "ᏸ", "ᏹ", "ᏺ", "ᏻ", "ᏼ", "ᏽ", "ᲀ", "ᲁ", "ᲂ", "ᲃ", "ᲄ", "ᲅ", "ᲆ", "ᲇ", "ᲈ", "Ᲊ", "ᲊ",
     "Ა", "Ბ", "Გ", "Დ", "Ე", "Ვ", "Ზ", "Თ", "Ი", "Კ", "Ლ", "Მ", "Ნ", "Ო", "Პ", "Ჟ", "Რ", "Ს",
     "Ტ", "Უ", "Ფ", "Ქ", "Ღ", "Ყ", "Შ", "Ჩ", "Ც", "Ძ", "Წ", "Ჭ", "Ხ", "Ჯ", "Ჰ", "Ჱ", "Ჲ", "Ჳ",
     "Ჴ", "Ჵ", "Ჶ", "Ჷ", "Ჸ", "Ჹ", "Ჺ", "Ჽ", "Ჾ", "Ჿ", "ᶀ", "ᶁ", "ᶂ", "ᶃ", "ᶄ", "ᶅ", "ᶆ", "ᶇ",
     "ᶈ", "ᶉ", "ᶊ", "ᶋ", "ᶌ", "ᶍ", "ᶎ", "ᶏ", "ᶐ", "ᶑ", "ᶒ", "ᶓ", "ᶔ", "ᶕ", "ᶖ", "ᶗ", "ᶘ", "ᶙ",
     "ᶚ", "ᶛ", "ᶜ", "ᶝ", "ᶞ", "ᶟ", "ᶠ", "ᶡ", "ᶢ", "ᶣ", "ᶤ", "ᶥ", "ᶦ", "ᶧ", "ᶨ", "ᶩ", "ᶪ", "ᶫ",
     "ᶬ", "ᶭ", "ᶮ", "ᶯ", "ᶰ", "ᶱ", "ᶲ", "ᶳ", "ᶴ", "ᶵ", "ᶶ", "ᶷ", "ᶸ", "ᶹ", "ᶺ", "ᶻ", "ᶼ", "ᶽ",
     "ᶾ", "ᶿ", "Ẁ", "ẁ", "Ẃ", "ẃ", "Ẅ", "ẅ", "Ẇ", "ẇ", "Ẉ", "ẉ", "Ẋ", "ẋ", "Ẍ", "ẍ", "Ẏ", "ẏ",
     "Ẑ", "ẑ", "Ẓ", "ẓ", "Ẕ", "ẕ", "ẖ", "ẗ", "ẘ", "ẙ", "ẚ", "ẛ", "ẜ", "ẝ", "ẞ", "ẟ", "Ạ", "ạ",
     "Ả", "ả", "Ấ", "ấ", "Ầ", "ầ", "Ẩ", "ẩ", "Ẫ", "ẫ", "Ậ", "ậ", "Ắ", "ắ", "Ằ", "ằ", "Ẳ", "ẳ",
     "Ẵ", "ẵ", "Ặ", "ặ", "Ẹ", "ẹ", "Ẻ", "ẻ", "Ẽ", "ẽ", "Ế", "ế", "Ề", "ề", "Ể", "ể", "Ễ", "ễ",
     "Ệ", "ệ", "Ỉ", "ỉ", "Ị", "ị", "Ọ", "ọ", "Ỏ", "ỏ", "Ố", "ố", "Ồ", "ồ", "Ổ", "ổ", "Ỗ", "ỗ",
     "Ộ", "ộ", "Ớ", "ớ", "Ờ", "ờ", "Ở", "ở", "Ỡ", "ỡ", "Ợ", "ợ", "Ụ", "ụ", "Ủ", "ủ", "Ứ", "ứ",
     "Ừ", "ừ", "Ử", "ử", "Ữ", "ữ", "Ự", "ự", "Ỳ", "ỳ", "Ỵ", "ỵ", "Ỷ", "ỷ", "Ỹ", "ỹ", "Ỻ", "ỻ",
     "Ỽ", "ỽ", "Ỿ", "ỿ", "ᾀ", "ᾁ", "ᾂ", "ᾃ", "ᾄ", "ᾅ", "ᾆ", "ᾇ", "ᾈ", "ᾉ", "ᾊ", "ᾋ", "ᾌ", "ᾍ",
     "ᾎ", "ᾏ", "ᾐ", "ᾑ", "ᾒ", "ᾓ", "ᾔ", "ᾕ", "ᾖ", "ᾗ", "ᾘ", "ᾙ", "ᾚ", "ᾛ", "ᾜ", "ᾝ", "ᾞ", "ᾟ",
     "ᾠ", "ᾡ", "ᾢ", "ᾣ", "ᾤ", "ᾥ", "ᾦ", "ᾧ", "ᾨ", "ᾩ", "ᾪ", "ᾫ", "ᾬ", "ᾭ", "ᾮ", "ᾯ", "ᾰ", "ᾱ",
     "ᾲ", "ᾳ", "ᾴ", "ᾶ", "ᾷ", "Ᾰ", "Ᾱ", "Ὰ", "Ά", "ᾼ", "ι", "ῂ", "ῃ", "ῄ", "ῆ", "ῇ", "Ὲ", "Έ",
     "Ὴ", "Ή", "ῌ", "ῐ", "ῑ", "ῒ", "ΐ", "ῖ", "ῗ", "Ῐ", "Ῑ", "Ὶ", "Ί", "ῠ", "ῡ", "ῢ", "ΰ", "ῤ",
     "ῥ", "ῦ", "ῧ", "Ῠ", "Ῡ", "Ὺ", "Ύ", "Ῥ", "ῲ", "ῳ", "ῴ", "ῶ", "ῷ", "Ὸ", "Ό", "Ὼ", "Ώ", "ῼ",
     "ₐ", "ₑ", "ₒ", "ₓ", "ₔ", "ₕ", "ₖ", "ₗ", "ₘ", "ₙ", "ₚ", "ₛ", "ₜ", "Ↄ", "ↄ", "Ⓐ", "Ⓑ", "Ⓒ",
     "Ⓓ", "Ⓔ", "Ⓕ", "Ⓖ", "Ⓗ", "Ⓘ", "Ⓙ", "Ⓚ", "Ⓛ", "Ⓜ", "Ⓝ", "Ⓞ", "Ⓟ", "Ⓠ", "Ⓡ", "Ⓢ", "Ⓣ", "Ⓤ",
     "Ⓥ", "Ⓦ", "Ⓧ", "Ⓨ", "Ⓩ", "ⓐ", "ⓑ", "ⓒ", "ⓓ", "ⓔ", "ⓕ", "ⓖ", "ⓗ", "ⓘ", "ⓙ", "ⓚ", "ⓛ", "ⓜ",
     "ⓝ", "ⓞ", "ⓟ", "ⓠ", "ⓡ", "ⓢ", "ⓣ", "ⓤ", "ⓥ", "ⓦ", "ⓧ", "ⓨ", "ⓩ", "Ⲁ", "ⲁ", "Ⲃ", "ⲃ", "Ⲅ",
     "ⲅ", "Ⲇ", "ⲇ", "Ⲉ", "ⲉ", "Ⲋ", "ⲋ", "Ⲍ", "ⲍ", "Ⲏ", "ⲏ", "Ⲑ", "ⲑ", "Ⲓ", "ⲓ", "Ⲕ", "ⲕ", "Ⲗ",
     "ⲗ", "Ⲙ", "ⲙ", "Ⲛ", "ⲛ", "Ⲝ", "ⲝ", "Ⲟ", "ⲟ", "Ⲡ", "ⲡ", "Ⲣ", "ⲣ", "Ⲥ", "ⲥ", "Ⲧ", "ⲧ", "Ⲩ",
     "ⲩ", "Ⲫ", "ⲫ", "Ⲭ", "ⲭ", "Ⲯ", "ⲯ", "Ⲱ", "ⲱ", "Ⲳ", "ⲳ", "Ⲵ", "ⲵ", "Ⲷ", "ⲷ", "Ⲹ", "ⲹ", "Ⲻ",
     "ⲻ", "Ⲽ", "ⲽ", "Ⲿ", "ⲿ", "Ⳁ", "ⳁ", "Ⳃ", "ⳃ", "Ⳅ", "ⳅ", "Ⳇ", "ⳇ", "Ⳉ", "ⳉ", "Ⳋ", "ⳋ", "Ⳍ",
     "ⳍ", "Ⳏ", "ⳏ", "Ⳑ", "ⳑ", "Ⳓ", "ⳓ", "Ⳕ", "ⳕ", "Ⳗ", "ⳗ", "Ⳙ", "ⳙ", "Ⳛ", "ⳛ", "Ⳝ", "ⳝ", "Ⳟ",
     "ⳟ", "Ⳡ", "ⳡ", "Ⳣ", "ⳣ", "ⳤ", "Ⳬ", "ⳬ", "Ⳮ", "ⳮ", "Ⳳ", "ⳳ", "Ꚁ", "ꚁ", "Ꚃ", "ꚃ", "Ꚅ", "ꚅ",
     "Ꚇ", "ꚇ", "Ꚉ", "ꚉ", "Ꚋ", "ꚋ", "Ꚍ", "ꚍ", "Ꚏ", "ꚏ", "Ꚑ", "ꚑ", "Ꚓ", "ꚓ", "Ꚕ", "ꚕ", "Ꚗ", "ꚗ",
     "Ꚙ", "ꚙ", "Ꚛ", "ꚛ", "ꚜ", "ꚝ", "Ꞁ", "ꞁ", "Ꞃ", "ꞃ", "Ꞅ", "ꞅ", "Ꞇ", "ꞇ", "Ꞌ", "ꞌ", "Ɥ", "ꞎ",
     "Ꞑ", "ꞑ", "Ꞓ", "ꞓ", "ꞔ", "ꞕ", "Ꞗ", "ꞗ", "Ꞙ", "ꞙ", "Ꞛ", "ꞛ", "Ꞝ", "ꞝ", "Ꞟ", "ꞟ", "Ꞡ", "ꞡ",
     "Ꞣ", "ꞣ", "Ꞥ", "ꞥ", "Ꞧ", "ꞧ", "Ꞩ", "ꞩ", "Ɦ", "Ɜ", "Ɡ", "Ɬ", "Ɪ", "ꞯ", "Ʞ", "Ʇ", "Ʝ", "Ꭓ",
     "Ꞵ", "ꞵ", "Ꞷ", "ꞷ", "Ꞹ", "ꞹ", "Ꞻ", "ꞻ", "Ꞽ", "ꞽ", "Ꞿ", "ꞿ", "Ꟁ", "ꟁ", "Ꟃ", "ꟃ", "Ꞔ", "Ʂ",
     "Ᶎ", "Ꟈ", "ꟈ", "Ꟊ", "ꟊ", "Ɤ", "Ꟍ", "ꟍ", "꟎", "꟏", "Ꟑ", "ꟑ", "꟒", "ꟓ", "꟔", "ꟕ", "Ꟗ", "ꟗ",
     "Ꟙ", "ꟙ", "Ꟛ", "ꟛ", "Ƛ", "꟱", "ꟲ", "ꟳ", "ꟴ", "Ꟶ", "ꟶ", "ꟸ", "ꟹ", "ꟺ", "ꮀ", "ꮁ", "ꮂ", "ꮃ",
     "ꮄ", "ꮅ", "ꮆ", "ꮇ", "ꮈ", "ꮉ", "ꮊ", "ꮋ", "ꮌ", "ꮍ", "ꮎ", "ꮏ", "ꮐ", "ꮑ", "ꮒ", "ꮓ", "ꮔ", "ꮕ",
     "ꮖ", "ꮗ", "ꮘ", "ꮙ", "ꮚ", "ꮛ", "ꮜ", "ꮝ", "ꮞ", "ꮟ", "ꮠ", "ꮡ", "ꮢ", "ꮣ", "ꮤ", "ꮥ", "ꮦ", "ꮧ",
     "ꮨ", "ꮩ", "ꮪ", "ꮫ", "ꮬ", "ꮭ", "ꮮ", "ꮯ", "ꮰ", "ꮱ", "ꮲ", "ꮳ", "ꮴ", "ꮵ", "ꮶ", "ꮷ", "ꮸ", "ꮹ",
     "ꮺ", "ꮻ", "ꮼ", "ꮽ", "ꮾ", "ꮿ"}

\* char::to_lowercase: the ASCII letters first, then the table; a character with no
\* lower case stays. A lower case that no string here can hold is given by its code point.
char_to_lowercase(c) ==
    CASE c = "A" -> "a" [] c = "B" -> "b" [] c = "C" -> "c" [] c = "D" -> "d"
      [] c = "E" -> "e" [] c = "F" -> "f" [] c = "G" -> "g" [] c = "H" -> "h"
      [] c = "I" -> "i" [] c = "J" -> "j" [] c = "K" -> "k" [] c = "L" -> "l"
      [] c = "M" -> "m" [] c = "N" -> "n" [] c = "O" -> "o" [] c = "P" -> "p"
      [] c = "Q" -> "q" [] c = "R" -> "r" [] c = "S" -> "s" [] c = "T" -> "t"
      [] c = "U" -> "u" [] c = "V" -> "v" [] c = "W" -> "w" [] c = "X" -> "x"
      [] c = "Y" -> "y" [] c = "Z" -> "z"
      [] OTHER -> IF \E p \in LOWERCASE_TABLE : p[1] = c
                  THEN With(CHOOSE p \in LOWERCASE_TABLE : p[1] = c, LAMBDA p :
                          IF p[2] = "" THEN p[3] ELSE p[2])
                  ELSE c

\* map_uppercase_sigma of str::to_lowercase: the capital sigma at place i of from is a
\* final sigma when the nearest character before it that is not case-ignorable is
\* cased and the nearest such character after it is not
map_uppercase_sigma(from, i) ==
    LET before == {j \in 1..(i - 1) : SubSeq(from, j, j) \notin Case_Ignorable}
        after == {j \in (i + 1)..Len(from) : SubSeq(from, j, j) \notin Case_Ignorable}
        last_before == CHOOSE j \in before : \A k \in before : k <= j
        first_after == CHOOSE j \in after : \A k \in after : j <= k
        is_word_final ==
            /\ before # {} /\ SubSeq(from, last_before, last_before) \in Cased
            /\ ~(after # {} /\ SubSeq(from, first_after, first_after) \in Cased)
    IN IF is_word_final THEN "ς" ELSE "σ"

\* The lower case of s is a string of this module: each character of s has a lower case
\* that a string here can hold
lowercase_held(s) ==
    \A i \in 1..Len(s) : \A p \in LOWERCASE_TABLE : p[1] = SubSeq(s, i, i) => p[2] # ""

\* str::to_lowercase: every character of the identifier lowered, in order; the capital
\* sigma by its place in the word. The result is the string of the lowered characters;
\* where one of them is given by its code point, it is the sequence of them.
to_lowercase(s) ==
    LET lower_at(i) == IF SubSeq(s, i, i) = "Σ" THEN map_uppercase_sigma(s, i)
                       ELSE char_to_lowercase(SubSeq(s, i, i))
        lowered[i \in 0..Len(s)] == IF i = 0 THEN "" ELSE lowered[i - 1] \o lower_at(i)
    IN IF lowercase_held(s) THEN lowered[Len(s)]
       ELSE [i \in 1..Len(s) |-> lower_at(i)]

\* Binder::_bind_single_table_ref
_bind_single_table_ref(ctx, joint_type, table) ==
    IF bind_table_contains_key(ctx, table) THEN Err("InvalidTable")
    ELSE With(table_catalog(table), LAMBDA cat :
            IF ~cat.some THEN Err("InvalidTable")
            ELSE Ok([context |-> [ctx EXCEPT !.bind_table =
                                      Append(@, [name |-> table, catalog |-> cat.v,
                                                 join_type |-> joint_type])],
                     name |-> table,
                     plan |-> ScanOperator(table, cat.v)]))

\* Binder::bind_single_table_ref
bind_single_table_ref(ctx, table, joint_type) ==
    IF table.k = "Table"
    THEN With([i \in 1..Len(table.name) |-> to_lowercase(table.name[i])], LAMBDA obj_name :
            IF Len(obj_name) \notin {1, 2, 3} THEN Err("InvalidTableName")
            ELSE IF table.alias.some
            THEN _bind_single_table_ref(ctx, joint_type, table.alias.v)
            ELSE IF lowercase_held(table.name[Len(table.name)])
            THEN _bind_single_table_ref(ctx, joint_type, obj_name[Len(obj_name)])
            \* a lowered name that no string here holds is the name of no bound table and of
            \* no table of Storage: _bind_single_table_ref finds no catalog (lines 163-172)
            ELSE Err("InvalidTable"))
    ELSE Err("panic")

\* The orientation extract_join_keys gives an Eq of two column references (lines
\* 457-467): which operand belongs to which schema is decided by column name.
join_key_orientation(l, r, left_schema, right_schema) ==
    IF contains_column(left_schema, l.name) /\ contains_column(right_schema, r.name)
    THEN "left_right"
    ELSE IF contains_column(left_schema, r.name) /\ contains_column(right_schema, l.name)
    THEN "right_left"
    ELSE "filter"

\* accum_filter.push that puts the residual in front of the ones collected before it
push_accum_filter_front(ctx, expr, accum, accum_filter) ==
    AndThen(bind_expr(ctx, expr), LAMBDA whole :
        Ok([accum |-> accum, accum_filter |-> <<whole>> \o accum_filter]))

\* accum_filter.push(self.bind_expr(expr)?)
push_accum_filter(ctx, expr, accum, accum_filter) ==
    AndThen(bind_expr(ctx, expr), LAMBDA whole :
        Ok([accum |-> accum, accum_filter |-> Append(accum_filter, whole)]))

\* Binder::extract_join_keys: the equi-join pairs and the residual predicates of an ON
\* expression, appended to accum / accum_filter.
RECURSIVE extract_join_keys(_, _, _, _, _, _)
extract_join_keys(ctx, expr, accum, accum_filter, left_schema, right_schema) ==
    IF expr.k = "BinaryOp" /\ expr.op = "And"
    THEN AndThen(extract_join_keys(ctx, expr.left, accum, accum_filter,
                                   left_schema, right_schema), LAMBDA a :
            extract_join_keys(ctx, expr.right, a.accum, a.accum_filter,
                              left_schema, right_schema))
    ELSE IF expr.k = "BinaryOp" /\ expr.op = "Eq"
    THEN AndThen(bind_expr(ctx, expr.left), LAMBDA left :
         AndThen(bind_expr(ctx, expr.right), LAMBDA right :
         With(IF left.tag = "ColumnRef" /\ right.tag = "ColumnRef"
              THEN join_key_orientation(left.col, right.col, left_schema, right_schema)
              ELSE "filter", LAMBDA o :
            IF o = "left_right"
            THEN Ok([accum |-> Append(accum, <<left, right>>), accum_filter |-> accum_filter])
            ELSE IF o = "right_left"
            THEN Ok([accum |-> Append(accum, <<right, left>>), accum_filter |-> accum_filter])
            ELSE push_accum_filter(ctx, expr, accum, accum_filter))))
    ELSE push_accum_filter(ctx, expr, accum, accum_filter)

\* Iterator::reduce with AND over the residual predicates
RECURSIVE reduce_and(_, _)
reduce_and(acc, rest) ==
    IF rest = <<>> THEN acc
    ELSE reduce_and(Binary("And", acc, Head(rest), "Boolean"), Tail(rest))

\* Binder::bind_join_constraint
bind_join_constraint(ctx, left_table, right_table, constraint) ==
    IF constraint.k = "On"
    THEN AndThen(extract_join_keys(ctx, constraint.expr, <<>>, <<>>, left_table, right_table),
                 LAMBDA keys :
            Ok([k |-> "On", on |-> keys.accum,
                filter |-> IF keys.accum_filter = <<>> THEN None
                           ELSE Some(reduce_and(Head(keys.accum_filter),
                                                Tail(keys.accum_filter)))]))
    ELSE Err("panic")

\* The JoinType of an ast::JoinOperator (lines 235-242)
join_type_of(kind) ==
    CASE kind = "Inner" -> "Inner"
      [] kind = "LeftOuter" -> "Left"
      [] kind = "RightOuter" -> "Right"
      [] kind = "FullOuter" -> "Full"
      [] kind = "CrossJoin" -> "Cross"
      [] OTHER -> "unimplemented"

\* Binder::bind_join
bind_join(ctx, left_table, left, join) ==
    IF join_type_of(join.join_operator.kind) = "unimplemented" THEN ErrAt(Err("panic"), ctx)
    ELSE With(join_type_of(join.join_operator.kind), LAMBDA join_type :
         AndThen(ErrAt(bind_single_table_ref(ctx, join.relation, Some(join_type)), ctx),
                 LAMBDA r :
         With(table_catalog(left_table), LAMBDA lcat :
         With(table_catalog(r.name), LAMBDA rcat :
            \* from line 244 on, the right table is in self.context.bind_table
            IF ~lcat.some \/ ~rcat.some THEN ErrAt(Err("InvalidTable"), r.context)
            ELSE AndThen(IF join_type = "Cross" THEN Ok([k |-> "None"])
                         ELSE ErrAt(bind_join_constraint(r.context, lcat.v, rcat.v,
                                                         join.join_operator.constraint),
                                    r.context),
                         LAMBDA on :
                    Ok([context |-> r.context,
                        plan |-> LJoinOperator(left, r.plan, on, join_type)]))))))

\* ------------------------------------------------------------------ binder: SELECT list

\* Binder::bind_all_column_refs: every column of every bound table, in insertion order
bind_all_column_refs(ctx) ==
    LET per_table[i \in 0..Len(ctx.bind_table)] ==
            IF i = 0 THEN Ok(<<>>)
            ELSE AndThen(per_table[i-1], LAMBDA acc :
                 With(table_catalog(ctx.bind_table[i].name), LAMBDA t :
                    IF ~t.some THEN Err("InvalidTable")
                    ELSE Ok(acc \o [j \in 1..Len(t.v.columns) |-> ColumnRef(t.v.columns[j])])))
    IN per_table[Len(ctx.bind_table)]

\* One select item bound and pushed (lines 189-207)
normalize_one_item(prev, item) ==
    IF item.k \in {"UnnamedExpr", "ExprWithAlias"}
    THEN AndThen(bind_expr(prev.context, item.expr), LAMBDA e :
            IF item.k = "UnnamedExpr"
            THEN Ok([prev EXCEPT !.select_items = Append(@, e)])
            ELSE Ok([context |-> add_alias(prev.context, item.alias, e),
                     select_items |-> Append(prev.select_items, Alias(e, item.alias))]))
    ELSE IF item.k = "Wildcard"
    THEN AndThen(bind_all_column_refs(prev.context), LAMBDA all_refs :
            Ok([prev EXCEPT !.select_items = @ \o all_refs]))
    ELSE Err("panic")

\* Binder::normalize_select_item
normalize_select_item(ctx, items) ==
    LET step[i \in 0..Len(items)] ==
            IF i = 0 THEN Ok([context |-> ctx, select_items |-> <<>>])
            \* an item that fails leaves the aliases the items before it added (line 195)
            ELSE AndThen(step[i-1], LAMBDA prev :
                    ErrAt(normalize_one_item(prev, items[i]), prev.context))
    IN step[Len(items)]

\* joins_nullable(join_type): (left_force_nullable, right_force_nullable)
joins_nullable(join_type) ==
    CASE join_type = "Inner" -> <<FALSE, FALSE>>
      [] join_type = "Left" -> <<FALSE, TRUE>>
      [] join_type = "Right" -> <<TRUE, FALSE>>
      [] join_type = "Full" -> <<TRUE, TRUE>>
      [] join_type = "Cross" -> <<FALSE, FALSE>>

\* The map table -> force_nullable that extract_select_join builds (lines 363-379).
table_force_nullable(ctx) ==
    LET bt == ctx.bind_table
        \* [map, left_table_force_nullable, left_table] after the first i entries
        scan[i \in 0..Len(bt)] ==
            IF i = 0 THEN [map |-> <<>>, left_flag |-> FALSE, left_table |-> None]
            ELSE LET prev == scan[i-1]
                     e == bt[i]
                 IN IF e.join_type.some
                    THEN [prev EXCEPT
                            !.map = (e.name :> joins_nullable(e.join_type.v)[2]) @@ prev.map,
                            !.left_flag = joins_nullable(e.join_type.v)[1]]
                    ELSE [prev EXCEPT !.left_table = Some(e.name)]
        done == scan[Len(bt)]
    IN IF done.left_table.some
       THEN (done.left_table.v :> done.left_flag) @@ done.map
       ELSE done.map

\* Binder::extract_select_join
extract_select_join(ctx, select_items) ==
    IF Len(ctx.bind_table) < 2 THEN select_items
    ELSE With(table_force_nullable(ctx), LAMBDA force :
            [i \in 1..Len(select_items) |->
                IF select_items[i].tag = "ColumnRef"
                   /\ select_items[i].col.table_name \in DOMAIN force
                THEN ColumnRef([select_items[i].col EXCEPT
                                   !.nullable = force[select_items[i].col.table_name]])
                ELSE select_items[i]])

\* ------------------------------------------------------------------ binder: aggregates

\* visit_column_agg_expr that reads the index after the counter has advanced: the
\* InputRef of the first AggCall is 1
RECURSIVE visit_column_agg_expr_late_index(_, _)
visit_column_agg_expr_late_index(ctx, expr) ==
    CASE expr.tag = "AggCall" ->
            [context |-> [input_ref_advance(ctx, "AggCall") EXCEPT
                             !.agg_calls = Append(@, expr)],
             expr |-> InputRef(input_ref_index(input_ref_advance(ctx, "AggCall"), "AggCall"),
                               expr.ty)]
      [] expr.tag \in {"TypeCast", "IsNull", "Unary", "Alias"} ->
            With(visit_column_agg_expr_late_index(ctx, expr.expr), LAMBDA inner :
                [context |-> inner.context, expr |-> [expr EXCEPT !.expr = inner.expr]])
      [] expr.tag = "Binary" ->
            With(visit_column_agg_expr_late_index(ctx, expr.left_expr), LAMBDA l :
            With(visit_column_agg_expr_late_index(l.context, expr.right_expr), LAMBDA r :
                [context |-> r.context,
                 expr |-> [expr EXCEPT !.left_expr = l.expr, !.right_expr = r.expr]]))
      [] OTHER -> [context |-> ctx, expr |-> expr]

\* Binder::visit_column_agg_expr: [context, expr] after the pre-order rewrite
RECURSIVE visit_column_agg_expr(_, _)
visit_column_agg_expr(ctx, expr) ==
    CASE expr.tag = "AggCall" ->
            [context |-> [input_ref_advance(ctx, "AggCall") EXCEPT
                             !.agg_calls = Append(@, expr)],
             expr |-> InputRef(input_ref_index(ctx, "AggCall"), expr.ty)]
      [] expr.tag \in {"TypeCast", "IsNull", "Unary", "Alias"} ->
            With(visit_column_agg_expr(ctx, expr.expr), LAMBDA inner :
                [context |-> inner.context, expr |-> [expr EXCEPT !.expr = inner.expr]])
      [] expr.tag = "Binary" ->
            With(visit_column_agg_expr(ctx, expr.left_expr), LAMBDA l :
            With(visit_column_agg_expr(l.context, expr.right_expr), LAMBDA r :
                [context |-> r.context,
                 expr |-> [expr EXCEPT !.left_expr = l.expr, !.right_expr = r.expr]]))
      [] OTHER -> [context |-> ctx, expr |-> expr]

\* extract_select_aggregate that replaces only the select items that are an AggCall
\* themselves, and leaves the aggregates below other expressions where they are
extract_select_aggregate_top_level(ctx, select_items) ==
    LET step[i \in 0..Len(select_items)] ==
            IF i = 0 THEN [context |-> ctx, select_items |-> <<>>]
            ELSE IF select_items[i].tag = "AggCall"
            THEN With(visit_column_agg_expr(step[i-1].context, select_items[i]), LAMBDA v :
                    [context |-> v.context,
                     select_items |-> Append(step[i-1].select_items, v.expr)])
            ELSE [context |-> step[i-1].context,
                  select_items |-> Append(step[i-1].select_items, select_items[i])]
    IN step[Len(select_items)]

\* Binder::extract_select_aggregate
extract_select_aggregate(ctx, select_items) ==
    LET step[i \in 0..Len(select_items)] ==
            IF i = 0 THEN [context |-> ctx, select_items |-> <<>>]
            ELSE With(visit_column_agg_expr(step[i-1].context, select_items[i]), LAMBDA v :
                    [context |-> v.context,
                     select_items |-> Append(step[i-1].select_items, v.expr)])
    IN step[Len(select_items)]

\* The select item carrying the alias `alias`, 0 when there is none.
alias_position(select_items, alias) ==
    Position(select_items, LAMBDA c : c.tag = "Alias" /\ c.alias = alias)

\* group_raw_exprs of validate_groupby_illegal_column (lines 147-169): the bound GROUP
\* BY expressions, an alias reference replaced by the select item of that alias (and
\* dropped when no select item has it).
group_raw_exprs(ctx, select_items, groupby) ==
    LET step[i \in 0..Len(groupby)] ==
            IF i = 0 THEN Ok(<<>>)
            ELSE AndThen(step[i-1], LAMBDA raw :
                 AndThen(bind_expr(ctx, groupby[i]), LAMBDA e :
                    IF e.tag = "Alias"
                    THEN IF alias_position(select_items, e.alias) # 0
                         THEN Ok(Append(raw, select_items[alias_position(select_items, e.alias)]))
                         ELSE Ok(raw)
                    ELSE Ok(Append(raw, e))))
    IN step[Len(groupby)]

\* Binder::validate_groupby_illegal_column
validate_groupby_illegal_column(ctx, select_items, groupby) ==
    AndThen(group_raw_exprs(ctx, select_items, groupby), LAMBDA raw :
    With(SeqFilter(select_items, LAMBDA e : ~has_agg_call(e, ctx)), LAMBDA non_agg :
        IF \E i \in 1..Len(non_agg) : ~SeqContains(raw, non_agg[i])
        THEN Err("AggMiss")
        ELSE IF {raw[i] : i \in 1..Len(raw)} \ {non_agg[i] : i \in 1..Len(non_agg)} # {}
        THEN Err("AggMiss")
        ELSE Ok(TRUE)))

\* select_list[at] replaced by InputRef{next(GroupBy), its return type}, the item itself
\* pushed to group_by_exprs (lines 213-223 and 235-243)
replace_by_group_ref(ctx, select_items, at) ==
    [context |-> [input_ref_advance(ctx, "GroupBy") EXCEPT
                     !.group_by_exprs = Append(@, select_items[at])],
     select_list |-> [select_items EXCEPT
                         ![at] = InputRef(input_ref_index(ctx, "GroupBy"),
                                          return_type(select_items[at]))]]

\* visit_group_by_expr that replaces a matching Constant or ColumnRef item as well
visit_group_by_expr_replace_all(ctx, select_items, expr) ==
    With(IF expr.tag = "Alias" THEN alias_position(select_items, expr.alias) ELSE 0, LAMBDA a :
    With(Position(select_items, LAMBDA column : column = expr), LAMBDA i :
        IF a # 0 \/ i # 0
        THEN replace_by_group_ref(ctx, select_items, IF a # 0 THEN a ELSE i)
        ELSE [context |-> ctx, select_list |-> select_items]))

\* Binder::visit_group_by_expr: [context, select_list] after one GROUP BY expression
visit_group_by_expr(ctx, select_items, expr) ==
    With(IF expr.tag = "Alias" THEN alias_position(select_items, expr.alias) ELSE 0, LAMBDA a :
    With(Position(select_items, LAMBDA column : column = expr), LAMBDA i :
        IF a # 0 \/ (i # 0 /\ select_items[i].tag \notin {"Constant", "ColumnRef"})
        THEN replace_by_group_ref(ctx, select_items, IF a # 0 THEN a ELSE i)
        ELSE IF i # 0
        THEN [context |-> [ctx EXCEPT !.group_by_exprs = Append(@, select_items[i])],
              select_list |-> select_items]
        ELSE [context |-> ctx, select_list |-> select_items]))

\* Binder::extract_group_by_aggregate
extract_group_by_aggregate(ctx, select_items, groupby) ==
    LET step[i \in 0..Len(groupby)] ==
            IF i = 0 THEN Ok([context |-> ctx, select_list |-> select_items])
            ELSE AndThen(step[i-1], LAMBDA prev :
                 AndThen(bind_expr(prev.context, groupby[i]), LAMBDA e :
                    Ok(visit_group_by_expr(prev.context, prev.select_list, e))))
    IN AndThen(validate_groupby_illegal_column(ctx, select_items, groupby), LAMBDA valid :
            step[Len(groupby)])

\* The descending flag extract_having_orderby_aggregate gives SortField::new (line 80)
orderby_desc(asc) == IF asc.some THEN ~asc.v ELSE TRUE

\* The nulls_first flag extract_having_orderby_aggregate gives SortField::new (line 81)
orderby_nulls_first(nulls_first) == IF nulls_first.some THEN nulls_first.v ELSE FALSE

\* One HAVING or ORDER BY expression bound and its aggregates extracted (lines 59-60
\* and 75-76)
bind_and_extract(ctx, expr) ==
    AndThen(bind_expr(ctx, expr), LAMBDA e : Ok(visit_column_agg_expr(ctx, e)))

\* Binder::extract_having_orderby_aggregate
extract_having_orderby_aggregate(ctx, having, orderbys) ==
    LET step[i \in 0..Len(orderbys)] ==
            IF i = 0
            THEN IF having.some
                 THEN AndThen(ErrAt(bind_and_extract(ctx, having.v), ctx), LAMBDA v :
                        Ok([context |-> v.context, having |-> Some(v.expr), fields |-> <<>>]))
                 ELSE Ok([context |-> ctx, having |-> None, fields |-> <<>>])
            \* an expression that fails leaves the agg calls pushed by the ones before it
            ELSE AndThen(step[i-1], LAMBDA prev :
                 AndThen(ErrAt(bind_and_extract(prev.context, orderbys[i].expr), prev.context),
                         LAMBDA v :
                    Ok([context |-> v.context,
                        having |-> prev.having,
                        fields |-> Append(prev.fields,
                            SortField(v.expr, orderby_desc(orderbys[i].asc),
                                      orderby_nulls_first(orderbys[i].nulls_first)))])))
    IN AndThen(step[Len(orderbys)], LAMBDA o :
            Ok([context |-> o.context,
                having |-> o.having,
                orderby |-> IF orderbys # <<>> THEN Some(o.fields) ELSE None]))

\* Binder::validate_having_orderby
RECURSIVE validate_having_orderby(_, _)
validate_having_orderby(ctx, expr) ==
    IF ctx.group_by_exprs = <<>> THEN Ok(TRUE)
    ELSE CASE expr.tag = "AggCall" ->
                IF SeqContains(ctx.group_by_exprs, expr) \/ SeqContains(ctx.agg_calls, expr)
                THEN Ok(TRUE) ELSE Err("AggMiss")
           [] expr.tag \in {"ColumnRef", "Alias"} ->
                IF SeqContains(ctx.group_by_exprs, expr) THEN Ok(TRUE) ELSE Err("AggMiss")
           [] expr.tag \in {"TypeCast", "IsNull", "Unary"} ->
                validate_having_orderby(ctx, expr.expr)
           [] expr.tag = "Binary" ->
                AndThen(validate_having_orderby(ctx, expr.left_expr), LAMBDA l :
                    validate_having_orderby(ctx, expr.right_expr))
           [] OTHER -> Ok(TRUE)

\* Binder::bind_having
bind_having(ctx, children, having) ==
    AndThen(validate_having_orderby(ctx, having), LAMBDA valid :
        Ok(FilterOperator(having, children, TRUE)))

\* Binder::bind_where
bind_where(ctx, children, predicate) ==
    AndThen(bind_expr(ctx, predicate), LAMBDA e : Ok(FilterOperator(e, children, FALSE)))

\* Binder::bind_aggregate
bind_aggregate(children, agg_calls, groupby_exprs) ==
    AggregateOperator(children, agg_calls, groupby_exprs)

\* Binder::bind_distinct: the distinct operator over the projection list
bind_distinct(children, select_items) ==
    AggregateOperator(children, <<>>, select_items)

\* bind_sort that returns its input and builds no Sort
bind_sort_skipped(children, sort_fields) == children

\* Binder::bind_sort
bind_sort(children, sort_fields) ==
    LogicalPlan([op |-> "Sort", sort_fields |-> sort_fields, limit |-> None], <<children>>)

\* Binder::bind_project
bind_project(children, select_items) ==
    LogicalPlan([op |-> "Project", columns |-> select_items], <<children>>)

\* The value bind_limit reads from a LIMIT or OFFSET expression (lines 326-334): a
\* positive integer literal, else InvalidColumn.
limit_value(ctx, expr) ==
    AndThen(bind_expr(ctx, expr), LAMBDA e :
        IF e.tag = "Constant" /\ e.ty \in {"Integer", "Bigint"} /\ e.value > 0
        THEN Ok(e.value)
        ELSE Err("InvalidColumn"))

\* bind_limit that hands LimitOperator::new the limit where the offset belongs and the
\* offset where the limit belongs
bind_limit_swapped(ctx, children, limit_expr, offset_expr) ==
    AndThen(IF limit_expr.some THEN limit_value(ctx, limit_expr.v) ELSE Ok(0), LAMBDA limit :
    AndThen(IF offset_expr.some THEN limit_value(ctx, offset_expr.v) ELSE Ok(0), LAMBDA offset :
        Ok(LimitOperator(limit, offset, children))))

\* Binder::bind_limit
bind_limit(ctx, children, limit_expr, offset_expr) ==
    AndThen(IF limit_expr.some THEN limit_value(ctx, limit_expr.v) ELSE Ok(0), LAMBDA limit :
    AndThen(IF offset_expr.some THEN limit_value(ctx, offset_expr.v) ELSE Ok(0), LAMBDA offset :
        Ok(LimitOperator(offset, limit, children))))

\* ------------------------------------------------------------------ input queries

\* Longest join chain of a FROM clause.
MaxJoins == 2

Table(name) == [k |-> "Table", name |-> name, alias |-> None]
TableAs(name, alias) == [k |-> "Table", name |-> name, alias |-> Some(alias)]
Derived == [k |-> "Derived"]
TableWithJoins(relation, joins) == [relation |-> relation, joins |-> joins]
On(expr) == [k |-> "On", expr |-> expr]
Join(relation, kind, constraint) ==
    [relation |-> relation, join_operator |-> [kind |-> kind, constraint |-> constraint]]

UnnamedExpr(e) == [k |-> "UnnamedExpr", expr |-> e]
ExprWithAlias(e, a) == [k |-> "ExprWithAlias", expr |-> e, alias |-> a]
Wildcard == [k |-> "Wildcard"]
QualifiedWildcard == [k |-> "QualifiedWildcard"]
OrderByExpr(e, asc, nulls_first) == [expr |-> e, asc |-> asc, nulls_first |-> nulls_first]

Select(distinct, projection, from, selection, group_by, having) ==
    [distinct |-> distinct, projection |-> projection, from |-> from,
     selection |-> selection, group_by |-> group_by, having |-> having]
Query(with, body, order_by, limit, offset) ==
    [with |-> with, body |-> body, order_by |-> order_by, limit |-> limit, offset |-> offset]
SelectBody(select) == [k |-> "Select", select |-> select]
QueryBody(q) == [k |-> "Query", query |-> q]
SetOperation == [k |-> "SetOperation"]

c1 == Identifier("c1")
c2 == Identifier("c2")
c3 == Identifier("c3")
c4 == Identifier("c4")
Eq(l, r) == BinaryOp(l, "Eq", r)
Gt(l, r) == BinaryOp(l, "Gt", r)
And(l, r) == BinaryOp(l, "And", r)
Plus(l, r) == BinaryOp(l, "Plus", r)

JoinKinds == {"Inner", "LeftOuter", "RightOuter", "FullOuter"}

\* ON expressions of t1 JOIN t2 and of t1 JOIN t3 (t3 has a column named c1 too)
OnExprsT2 ==
    {Eq(c1, c3), Eq(c3, c1), And(Eq(c1, c3), Gt(c1, Value(1))), Gt(c1, c3),
     Eq(c1, Value(1)), And(And(Eq(c3, c1), Gt(c2, Value(1))), Eq(c2, c4)),
     And(Gt(c1, Value(1)), And(Gt(c2, c4), Eq(c4, c2))), Eq(c1, c2),
     Eq(c1, Identifier("zz"))}
OnExprsT3 ==
    {Eq(CompoundIdentifier("t1", "c1"), CompoundIdentifier("t3", "c1")),
     Eq(CompoundIdentifier("t3", "c1"), CompoundIdentifier("t1", "c1")),
     Eq(CompoundIdentifier("t1", "c1"), CompoundIdentifier("t3", "c5")),
     Eq(CompoundIdentifier("t3", "c5"), CompoundIdentifier("t1", "c1"))}

\* The i-th table of a join chain and the key it is joined to t1 on
ChainTable(i) == <<"t1", "t2", "t3", "t4", "t5">>[i]
ChainKey(i) == <<"c1", "c3", "c5", "c7", "c9">>[i]
ChainKinds == JoinKinds \cup {"CrossJoin"}
ChainJoin(i, kind) ==
    Join(Table(<<ChainTable(i + 1)>>), kind,
         IF kind = "CrossJoin" THEN [k |-> "None"]
         ELSE On(Eq(CompoundIdentifier(ChainTable(i + 1), ChainKey(i + 1)),
                    CompoundIdentifier("t1", "c1"))))

\* FROM clauses: none, one table (plain, aliased, qualified, unsupported), one join,
\* join chains of up to MaxJoins joins, and two comma-separated entries.
FromSingle ==
    {<<>>,
     <<TableWithJoins(Table(<<"t1">>), <<>>)>>,
     <<TableWithJoins(Table(<<"T1">>), <<>>)>>,
     <<TableWithJoins(Table(<<"s", "t1">>), <<>>)>>,
     <<TableWithJoins(Table(<<"d", "s", "t1">>), <<>>)>>,
     <<TableWithJoins(Table(<<"x", "d", "s", "t1">>), <<>>)>>,
     <<TableWithJoins(Table(<<"nope">>), <<>>)>>,
     <<TableWithJoins(TableAs(<<"t1">>, "a"), <<>>)>>,
     <<TableWithJoins(TableAs(<<"t1">>, "t2"), <<>>)>>,
     <<TableWithJoins(Derived, <<>>)>>,
     <<TableWithJoins(Table(<<"t1">>), <<>>), TableWithJoins(Table(<<"t2">>), <<>>)>>}
FromJoin ==
    {<<TableWithJoins(Table(<<"t1">>), <<Join(Table(<<"t2">>), kind, On(e))>>)>> :
        kind \in {"Inner", "LeftOuter"}, e \in OnExprsT2}
    \cup {<<TableWithJoins(Table(<<"t1">>), <<Join(Table(<<"t3">>), "Inner", On(e))>>)>> :
            e \in OnExprsT3}
    \cup {<<TableWithJoins(Table(<<"t1">>), <<Join(Table(<<"t2">>), "Inner", c)>>)>> :
            c \in {[k |-> "Using"], [k |-> "Natural"], [k |-> "None"]}}
    \cup {<<TableWithJoins(Table(<<"t1">>), <<Join(r, "Inner", On(Eq(c1, c3)))>>)>> :
            r \in {Table(<<"t1">>), Derived, TableAs(<<"t2">>, "b"), Table(<<"nope">>)}}
    \cup {<<TableWithJoins(Table(<<"t1">>), <<Join(Table(<<"t2">>), "LeftSemi", On(Eq(c1, c3)))>>)>>}
FromChain ==
    UNION {{<<TableWithJoins(Table(<<"t1">>), [i \in 1..n |-> ChainJoin(i, kinds[i])])>> :
                kinds \in [1..n -> ChainKinds]} : n \in 1..MaxJoins}
FromSet == FromSingle \cup FromJoin \cup FromChain


Sum(e) == Function("sum", e)
Count(e) == Function("count", e)
Avg(e) == Function("avg", e)

\* Select lists
Projections ==
    {<<Wildcard>>,
     <<UnnamedExpr(c1)>>,
     <<UnnamedExpr(c1), UnnamedExpr(c2)>>,
     <<UnnamedExpr(c1), UnnamedExpr(Sum(c2))>>,
     <<UnnamedExpr(Avg(c1))>>,
     <<ExprWithAlias(c1, "x"), UnnamedExpr(Count(c2))>>,
     <<UnnamedExpr(Plus(c1, Value(1))), UnnamedExpr(Sum(c2))>>,
     <<ExprWithAlias(Plus(Sum(c1), Value(1)), "s"), UnnamedExpr(c2)>>,
     <<UnnamedExpr(c3), UnnamedExpr(Sum(c1))>>,
     <<UnnamedExpr(Plus(Sum(c1), Sum(c1))), UnnamedExpr(UnaryOp("Minus", Avg(c2)))>>}
GroupBys ==
    {<<>>, <<c1>>, <<c2>>, <<Identifier("x")>>, <<Plus(c1, Value(1))>>, <<c3>>, <<c1, c2>>}
Havings == {None, Some(Gt(Sum(c2), Value(1))), Some(Gt(c1, Value(1))), Some(Gt(c2, Value(1)))}
OrderBys ==
    {<<>>,
     <<OrderByExpr(c1, None, None)>>,
     <<OrderByExpr(Sum(c2), Some(FALSE), Some(TRUE))>>,
     <<OrderByExpr(c2, Some(TRUE), Some(FALSE)), OrderByExpr(Count(c1), None, None)>>}

FromT1 == <<TableWithJoins(Table(<<"t1">>), <<>>)>>
FromT1JoinT2(kind) ==
    <<TableWithJoins(Table(<<"t1">>), <<Join(Table(<<"t2">>), kind, On(Eq(c1, c3)))>>)>>

PlainQuery(select, order_by) == Query(FALSE, SelectBody(select), order_by, None, None)

\* Every FROM clause under a few select lists.
FromQueries ==
    {PlainQuery(Select(FALSE, p, f, None, <<>>, None), <<>>) :
        f \in FromSet,
        p \in {<<Wildcard>>,
               <<UnnamedExpr(CompoundIdentifier("t1", "c1")),
                 UnnamedExpr(Plus(CompoundIdentifier("t2", "c3"), Value(1)))>>}}

\* Aggregation, GROUP BY, HAVING and ORDER BY over one table and over a join.
AggQueries ==
    {PlainQuery(Select(FALSE, p, f, None, g, h), o) :
        f \in {FromT1, FromT1JoinT2("Inner"), FromT1JoinT2("LeftOuter")},
        p \in Projections, g \in GroupBys, h \in Havings, o \in OrderBys}

\* WHERE, DISTINCT, HAVING and unsupported select items.
ClauseQueries ==
    {PlainQuery(Select(d, p, FromT1, w, g, h), o) :
        d \in BOOLEAN,
        h \in {None, Some(Gt(Sum(c2), Value(1)))},
        p \in {<<UnnamedExpr(c1)>>, <<UnnamedExpr(c1), UnnamedExpr(Sum(c2))>>,
               <<UnnamedExpr(Value(1)), UnnamedExpr(Sum(c2))>>,
               <<QualifiedWildcard>>, <<UnnamedExpr(Subquery)>>},
        w \in {None, Some(Gt(c2, Value(1))), Some(Gt(c3, Value(1)))},
        g \in {<<>>, <<c1>>},
        o \in {<<>>, <<OrderByExpr(c2, None, None)>>}}

\* WITH, LIMIT / OFFSET, nested queries and set operations.
LimitExprs ==
    {None, Some(Value(1)), Some(Value(2)), Some(Value(0)), Some(c1),
     Some(CompoundIdentifier("t9", "c1")), Some(Subquery)}
OuterQueries ==
    {Query(w, b, <<>>, l, o) :
        w \in BOOLEAN,
        b \in {SelectBody(Select(FALSE, <<Wildcard>>, FromT1, None, <<>>, None)),
               QueryBody(Query(FALSE,
                               SelectBody(Select(FALSE, <<Wildcard>>, FromT1, None, <<>>, None)),
                               <<>>, Some(Value(3)), None)),
               SetOperation},
        l \in LimitExprs, o \in LimitExprs}

\* Queries that fail after the binder has written its context: a select item, an
\* ORDER BY expression or a join that fails behind one that was bound; and table names
\* in upper and mixed case.
LateFailQueries ==
    {PlainQuery(Select(FALSE, p, FromT1, None, <<>>, None), <<>>) :
        p \in {<<ExprWithAlias(c1, "x"), UnnamedExpr(Identifier("zz"))>>,
               <<ExprWithAlias(c1, "x"), UnnamedExpr(Subquery)>>,
               <<ExprWithAlias(c1, "x"), QualifiedWildcard>>}}
    \cup {PlainQuery(Select(FALSE, <<UnnamedExpr(c1)>>, FromT1, None, <<>>, h), o) :
            h \in {None, Some(Gt(Sum(c2), Value(1)))},
            o \in {<<OrderByExpr(Identifier("zz"), None, None)>>,
                   <<OrderByExpr(Count(c1), Some(TRUE), None), OrderByExpr(Subquery, None, None)>>}}
    \cup {PlainQuery(Select(FALSE, <<Wildcard>>, f, None, <<>>, None), <<>>) :
            f \in {<<TableWithJoins(Table(<<"T3">>), <<>>)>>,
                   <<TableWithJoins(Table(<<"ZZ">>), <<>>)>>,
                   <<TableWithJoins(Table(<<"S", "t4">>), <<>>)>>,
                   <<TableWithJoins(Table(<<"t1">>),
                                    <<Join(Table(<<"T2">>), "Inner", On(Eq(c1, c3)))>>)>>,
                   <<TableWithJoins(Table(<<"t1">>),
                                    <<Join(Table(<<"t2">>), "LeftOuter", On(Eq(c1, c3))),
                                      Join(Table(<<"t3">>), "Inner",
                                           On(Eq(Identifier("c5"), Identifier("zz"))))>>)>>,
                   <<TableWithJoins(Table(<<"t1">>),
                                    <<Join(Table(<<"t2">>), "Inner", On(Subquery))>>)>>}}

Queries ==
    FromQueries \cup AggQueries \cup ClauseQueries \cup OuterQueries \cup LateFailQueries

\* The queries whose plans are handed to the optimizer: column, expression, alias and
\* aggregate select lists over a table and over a join, with and without WHERE,
\* GROUP BY, ORDER BY and LIMIT.
OptQueries ==
    {Query(FALSE, SelectBody(Select(FALSE, p, f, w, g, None)), o, l, None) :
        p \in {<<UnnamedExpr(c1)>>,
               <<UnnamedExpr(Plus(c1, Value(1)))>>,
               <<ExprWithAlias(c1, "x")>>,
               <<Wildcard>>,
               <<UnnamedExpr(c2), UnnamedExpr(c1)>>,
               <<UnnamedExpr(c1), UnnamedExpr(c3)>>,
               <<UnnamedExpr(Sum(c2))>>,
               <<UnnamedExpr(c1), UnnamedExpr(Sum(c2))>>},
        f \in {FromT1, FromT1JoinT2("Inner"), FromT1JoinT2("LeftOuter"),
               <<TableWithJoins(Table(<<"t1">>),
                     <<Join(Table(<<"t2">>), "Inner", On(Gt(c1, Value(1))))>>)>>},
        w \in {None, Some(Gt(c2, Value(1)))},
        g \in {<<>>, <<c1>>},
        o \in {<<>>, <<OrderByExpr(c2, Some(TRUE), None)>>},
        l \in {None, Some(Value(1))}}

\* Queries whose Project and whose Filter or Join reference no column at all
ConstantQueries ==
    {Query(FALSE, SelectBody(Select(FALSE, <<UnnamedExpr(Value(1))>>, f, w, <<>>, None)),
           <<>>, None, None) :
        f \in {FromT1,
               <<TableWithJoins(Table(<<"t1">>),
                     <<Join(Table(<<"t2">>), "CrossJoin", [k |-> "None"])>>)>>},
        w \in {None, Some(Gt(Value(1), Value(0))), Some(Gt(c2, Value(1)))}}

\* ------------------------------------------------------------------ bind_query

NoPlan == LogicalPlan([op |-> "None"], <<>>)

CurQuery == frames[Len(frames)]
CurSelect == CurQuery.body.select

\* An Err leaves bind_query with the error (or the panic) and no plan.
Fail(e) ==
    /\ pc' = "done"
    /\ result' = e
    /\ plan' = NoPlan

\* The state bind_query is entered in, on one of the queries qs, before any optimizer
\* is built.
StartOn(qs) ==
    /\ query \in qs
    /\ pc = "bind_query"
    /\ context = NewContext
    /\ select_list = <<>>
    /\ plan = NoPlan
    /\ having_orderby = [having |-> None, orderby |-> None]
    /\ frames = <<query>>
    /\ from_locals = [left_name |-> "", next_join |-> 1]
    /\ result = "pending"
    /\ graph = [nodes |-> <<>>, children |-> <<>>, root |-> 0, next |-> 0, version |-> 0]
    /\ opt = [state |-> "idle"]
    /\ insert = [state |-> "idle"]

BindInit == StartOn(Queries)

\* bind_query, lines 36-44: WITH is skipped, the body is dispatched on
BindQuery ==
    /\ pc = "bind_query"
    /\ IF CurQuery.body.k = "Select"
       THEN pc' = "bind_table_ref" /\ UNCHANGED <<frames, result, plan>>
       ELSE IF CurQuery.body.k = "Query"
       THEN /\ frames' = Append(frames, CurQuery.body.query)
            /\ pc' = "bind_query"
            /\ UNCHANGED <<result, plan>>
       ELSE Fail("panic") /\ UNCHANGED frames
    /\ UNCHANGED <<query, context, select_list, having_orderby, from_locals, graph, opt>>
    /\ UNCHANGED insert

\* bind_table_ref, lines 112-122: the FROM list and its first relation
BindTableRef ==
    /\ pc = "bind_table_ref"
    /\ IF ~(Len(CurSelect.from) < 2)
       THEN Fail("panic") /\ UNCHANGED <<context, from_locals>>
       ELSE IF CurSelect.from = <<>>
       THEN /\ plan' = LogicalPlan(Dummy, <<>>)
            /\ pc' = "normalize_select_item"
            /\ UNCHANGED <<context, from_locals, result>>
       ELSE \E r \in {bind_single_table_ref(context, CurSelect.from[1].relation, None)} :
               IF ~r.ok
               THEN Fail(r.err) /\ UNCHANGED <<context, from_locals>>
               ELSE /\ context' = r.v.context
                    /\ plan' = r.v.plan
                    /\ from_locals' = [left_name |-> r.v.name, next_join |-> 1]
                    /\ pc' = IF CurSelect.from[1].joins # <<>> THEN "bind_join"
                             ELSE "normalize_select_item"
                    /\ UNCHANGED result
    /\ UNCHANGED <<query, select_list, having_orderby, frames, graph, opt>>
    /\ UNCHANGED insert

\* bind_table_ref, lines 124-128: one turn of the loop over the joins
BindJoin ==
    /\ pc = "bind_join"
    /\ \E r \in {bind_join(context, from_locals.left_name, plan,
                           CurSelect.from[1].joins[from_locals.next_join])} :
          IF ~r.ok
          THEN Fail(r.err) /\ context' = r.context /\ UNCHANGED from_locals
          ELSE /\ context' = r.v.context
               /\ plan' = r.v.plan
               /\ from_locals' = [from_locals EXCEPT !.next_join = @ + 1]
               /\ pc' = IF from_locals.next_join < Len(CurSelect.from[1].joins)
                        THEN "bind_join"
                        ELSE "normalize_select_item"
               /\ UNCHANGED result
    /\ UNCHANGED <<query, select_list, having_orderby, frames, graph, opt>>
    /\ UNCHANGED insert

\* bind_select, line 66
NormalizeSelectItem ==
    /\ pc = "normalize_select_item"
    /\ \E r \in {normalize_select_item(context, CurSelect.projection)} :
          IF ~r.ok
          THEN Fail(r.err) /\ context' = r.context /\ UNCHANGED select_list
          ELSE /\ context' = r.v.context
               /\ select_list' = r.v.select_items
               /\ pc' = "extract_select_join"
               /\ UNCHANGED <<result, plan>>
    /\ UNCHANGED <<query, having_orderby, frames, from_locals, graph, opt>>
    /\ UNCHANGED insert

\* bind_select, line 68
ExtractSelectJoin ==
    /\ pc = "extract_select_join"
    /\ select_list' = extract_select_join(context, select_list)
    /\ pc' = "bind_where"
    /\ UNCHANGED <<query, context, plan, having_orderby, frames, from_locals, result, graph, opt>>
    /\ UNCHANGED insert

\* bind_select, lines 70-72
BindWhere ==
    /\ pc = "bind_where"
    /\ IF CurSelect.selection.some
       THEN \E r \in {bind_where(context, plan, CurSelect.selection.v)} :
               IF ~r.ok THEN Fail(r.err)
               ELSE plan' = r.v /\ pc' = "extract_select_aggregate" /\ UNCHANGED result
       ELSE pc' = "extract_select_aggregate" /\ UNCHANGED <<plan, result>>
    /\ UNCHANGED <<query, context, select_list, having_orderby, frames, from_locals, graph, opt>>
    /\ UNCHANGED insert

\* bind_select, line 74
ExtractSelectAggregate ==
    /\ pc = "extract_select_aggregate"
    /\ \E r \in {extract_select_aggregate(context, select_list)} :
          /\ context' = r.context
          /\ select_list' = r.select_items
    /\ pc' = "extract_group_by_aggregate"
    /\ UNCHANGED <<query, plan, having_orderby, frames, from_locals, result, graph, opt>>
    /\ UNCHANGED insert

\* bind_select, lines 76-78
ExtractGroupByAggregate ==
    /\ pc = "extract_group_by_aggregate"
    /\ IF CurSelect.group_by # <<>>
       THEN \E r \in {extract_group_by_aggregate(context, select_list, CurSelect.group_by)} :
               IF ~r.ok
               THEN Fail(r.err) /\ UNCHANGED <<context, select_list>>
               ELSE /\ context' = r.v.context
                    /\ select_list' = r.v.select_list
                    /\ pc' = "extract_having_orderby_aggregate"
                    /\ UNCHANGED <<result, plan>>
       ELSE /\ pc' = "extract_having_orderby_aggregate"
            /\ UNCHANGED <<context, select_list, result, plan>>
    /\ UNCHANGED <<query, having_orderby, frames, from_locals, graph, opt>>
    /\ UNCHANGED insert

\* bind_select, lines 80-84
ExtractHavingOrderbyAggregate ==
    /\ pc = "extract_having_orderby_aggregate"
    /\ IF CurSelect.having.some \/ CurQuery.order_by # <<>>
       THEN \E r \in {extract_having_orderby_aggregate(context, CurSelect.having,
                                                       CurQuery.order_by)} :
               IF ~r.ok
               THEN Fail(r.err) /\ context' = r.context /\ UNCHANGED having_orderby
               ELSE /\ context' = r.v.context
                    /\ having_orderby' = [having |-> r.v.having, orderby |-> r.v.orderby]
                    /\ pc' = "bind_aggregate"
                    /\ UNCHANGED <<result, plan>>
       ELSE /\ having_orderby' = [having |-> None, orderby |-> None]
            /\ pc' = "bind_aggregate"
            /\ UNCHANGED <<context, result, plan>>
    /\ UNCHANGED <<query, select_list, frames, from_locals, graph, opt>>
    /\ UNCHANGED insert

\* bind_select, lines 86-92
BindAggregate ==
    /\ pc = "bind_aggregate"
    /\ plan' = IF context.agg_calls # <<>> \/ context.group_by_exprs # <<>>
               THEN bind_aggregate(plan, context.agg_calls, context.group_by_exprs)
               ELSE plan
    /\ pc' = "bind_having"
    /\ UNCHANGED <<query, context, select_list, having_orderby, frames, from_locals,
                   result, graph, opt>>
    /\ UNCHANGED insert

\* bind_select, lines 94-96
BindHaving ==
    /\ pc = "bind_having"
    /\ IF having_orderby.having.some
       THEN \E r \in {bind_having(context, plan, having_orderby.having.v)} :
               IF ~r.ok THEN Fail(r.err)
               ELSE plan' = r.v /\ pc' = "bind_distinct" /\ UNCHANGED result
       ELSE pc' = "bind_distinct" /\ UNCHANGED <<plan, result>>
    /\ UNCHANGED <<query, context, select_list, having_orderby, frames, from_locals, graph, opt>>
    /\ UNCHANGED insert

\* bind_select, lines 98-100
BindDistinct ==
    /\ pc = "bind_distinct"
    /\ plan' = IF CurSelect.distinct THEN bind_distinct(plan, select_list) ELSE plan
    /\ pc' = "bind_sort"
    /\ UNCHANGED <<query, context, select_list, having_orderby, frames, from_locals,
                   result, graph, opt>>
    /\ UNCHANGED insert

\* bind_select, lines 102-104
BindSort ==
    /\ pc = "bind_sort"
    /\ plan' = IF having_orderby.orderby.some
               THEN bind_sort(plan, having_orderby.orderby.v)
               ELSE plan
    /\ pc' = "bind_project"
    /\ UNCHANGED <<query, context, select_list, having_orderby, frames, from_locals,
                   result, graph, opt>>
    /\ UNCHANGED insert

\* bind_select, lines 106-108: the Project, and the return to bind_query
BindProject ==
    /\ pc = "bind_project"
    /\ plan' = bind_project(plan, select_list)
    /\ pc' = "bind_limit"
    /\ UNCHANGED <<query, context, select_list, having_orderby, frames, from_locals,
                   result, graph, opt>>
    /\ UNCHANGED insert

\* bind_query, lines 46-53: the Limit of the innermost bind_query in progress, and its
\* return to the caller
BindLimit ==
    /\ pc = "bind_limit"
    /\ \E r \in {IF CurQuery.limit.some \/ CurQuery.offset.some
                 THEN bind_limit(context, plan, CurQuery.limit, CurQuery.offset)
                 ELSE Ok(plan)} :
          IF ~r.ok
          THEN Fail(r.err) /\ UNCHANGED frames
          ELSE /\ plan' = r.v
               /\ frames' = SubSeq(frames, 1, Len(frames) - 1)
               /\ IF Len(frames) = 1
                  THEN pc' = "done" /\ result' = "Ok"
                  ELSE pc' = "bind_limit" /\ UNCHANGED result
    /\ UNCHANGED <<query, context, select_list, having_orderby, from_locals, graph, opt>>
    /\ UNCHANGED insert

\* ------------------------------------------------------------------ plan operators

exprs_referenced_columns(es) == referenced_columns_seq(es)

\* Operator::referenced_columns: the columns the operator's own expressions reference
operator_referenced_columns(o) ==
    CASE o.op = "Aggregate" -> exprs_referenced_columns(o.agg_calls \o o.groupby_exprs)
      [] o.op = "Filter" -> referenced_columns(o.predicate)
      [] o.op = "Join" ->
            IF o.on.k = "On"
            THEN exprs_referenced_columns(
                     SeqConcat([i \in 1..Len(o.on.on) |-> o.on.on[i]])
                     \o (IF o.on.filter.some THEN <<o.on.filter.v>> ELSE <<>>))
            ELSE <<>>
      [] o.op = "Project" -> exprs_referenced_columns(o.columns)
      [] o.op = "Scan" -> exprs_referenced_columns(o.columns)
      [] o.op = "Sort" ->
            exprs_referenced_columns([i \in 1..Len(o.sort_fields) |-> o.sort_fields[i].expr])
      [] OTHER -> <<>>

\* Operator::project_input_refs: the top-level InputRefs of a Project's columns
project_input_refs(o) ==
    IF o.op = "Project" THEN SeqFilter(o.columns, LAMBDA e : e.tag = "InputRef") ELSE <<>>

\* Operator::agg_mapping_col_refs: the columns of the aggregate calls the InputRefs index
agg_mapping_col_refs(o, input_refs) ==
    IF o.op = "Aggregate"
    THEN exprs_referenced_columns(
             SeqConcat([i \in 1..Len(input_refs) |->
                 IF input_refs[i].index < Len(o.agg_calls)
                 THEN <<o.agg_calls[input_refs[i].index + 1]>> ELSE <<>>]))
    ELSE <<>>

\* ------------------------------------------------------------------ HepGraph

EmptyGraph == [nodes |-> <<>>, children |-> <<>>, root |-> 0, next |-> 0, version |-> 0]

\* HepGraph::new: the plan's nodes numbered in pre-order
RECURSIVE graph_add_plan(_, _)
graph_add_plan(g, p) ==
    LET id == g.next
        g0 == [g EXCEPT !.nodes = (id :> p.operator) @@ g.nodes,
                        !.children = (id :> <<>>) @@ g.children,
                        !.next = id + 1]
        kids[i \in 0..Len(p.childrens)] ==
            IF i = 0 THEN g0
            ELSE LET before == kids[i-1]
                     after == graph_add_plan(before, p.childrens[i])
                 IN [after EXCEPT !.children[id] = Append(@, before.next)]
    IN kids[Len(p.childrens)]
HepGraphNew(p) == [graph_add_plan(EmptyGraph, p) EXCEPT !.root = 0]

\* HepGraph::operator
operator(g, id) == g.nodes[id]
\* HepGraph::children_at
children_at(g, id) == g.children[id]
\* HepGraph::parent_id: 0 - 1 when the node is the root
parent_id(g, id) ==
    IF \E n \in DOMAIN g.children : SeqContains(g.children[n], id)
    THEN CHOOSE n \in DOMAIN g.children : SeqContains(g.children[n], id)
    ELSE 0 - 1

replace_in(seq, old, new) ==
    SeqConcat([i \in 1..Len(seq) |-> IF seq[i] = old THEN new ELSE <<seq[i]>>])

\* HepGraph::add_node(parent, Some(before_child), new): the new node between the two
add_node(g, parent, child, new_op) ==
    LET id == g.next
    IN [g EXCEPT !.nodes = (id :> new_op) @@ g.nodes,
                 !.children = (id :> <<child>>) @@
                              [g.children EXCEPT ![parent] = replace_in(@, child, <<id>>)],
                 !.next = id + 1,
                 !.version = @ + 1]

\* HepGraph::remove_node(id, false): the node alone is removed, its children take its
\* place under its parent (or become the root)
remove_node(g, id) ==
    LET parent == parent_id(g, id)
        kids == g.children[id]
        rest == DOMAIN g.nodes \ {id}
        rewired == IF parent >= 0
                   THEN [g.children EXCEPT ![parent] = replace_in(@, id, kids)]
                   ELSE g.children
    IN [g EXCEPT !.nodes = [n \in rest |-> g.nodes[n]],
                 !.children = [n \in rest |-> rewired[n]],
                 !.root = IF parent >= 0 THEN g.root ELSE kids[1],
                 !.version = @ + 1]

\* HepGraph::replace_node
replace_node(g, id, new_op) ==
    [g EXCEPT !.nodes[id] = new_op, !.version = @ + 1]

\* HepGraph::to_plan
RECURSIVE to_plan_at(_, _)
to_plan_at(g, id) ==
    LogicalPlan(g.nodes[id],
                [i \in 1..Len(g.children[id]) |-> to_plan_at(g, g.children[id][i])])
to_plan(g) == to_plan_at(g, g.root)

\* ------------------------------------------------------------------ patterns and rules

Pattern(predicate, children) == [predicate |-> predicate, children |-> children]
PredicateChildren(patterns) == [k |-> "Predicate", patterns |-> patterns]
NoneChildren == [k |-> "None"]

\* The predicates of the two patterns (lines 16, 18, 26, 28, 30)
pattern_predicate(name, o) ==
    CASE name = "is_project" -> o.op = "Project"
      [] name = "is_scan" -> o.op = "Scan"
      [] name = "not_scan_or_project" -> o.op \notin {"Scan", "Project"}
      [] name = "not_project" -> o.op # "Project"

PUSH_PROJECT_INTO_SCAN_RULE ==
    Pattern("is_project", PredicateChildren(<<Pattern("is_scan", NoneChildren)>>))

PUSH_PROJECT_THROUGH_CHILD_RULE ==
    Pattern("is_project",
            PredicateChildren(<<Pattern("not_scan_or_project",
                PredicateChildren(<<Pattern("not_project", NoneChildren)>>))>>))

\* HepMatcher::match_opt_expr: the node satisfies the predicate and each of its children
\* matches the children patterns
RECURSIVE match_opt_expr(_, _, _)
match_opt_expr(pattern, g, id) ==
    /\ pattern_predicate(pattern.predicate, operator(g, id))
    /\ \/ pattern.children.k = "None"
       \/ /\ pattern.children.k = "Predicate"
          /\ \A i \in 1..Len(children_at(g, id)) :
                \A j \in 1..Len(pattern.children.patterns) :
                    match_opt_expr(pattern.children.patterns[j], g, children_at(g, id)[i])

\* into_scan_columns without the filter: every column of the Project goes to the scan
into_scan_columns_unfiltered(project_columns) == project_columns

\* The column list PushProjectIntoScan gives the scan (lines 52-56)
into_scan_columns(project_columns) ==
    SeqFilter(project_columns, LAMBDA e : unpack_alias(e).tag = "ColumnRef")

\* PushProjectIntoScan::apply
PushProjectIntoScan_apply(g, node_id) ==
    IF operator(g, node_id).op = "Project"
    THEN LET child_index == children_at(g, node_id)[1]
         IN IF operator(g, child_index).op = "Scan"
            THEN LET new_scan_op ==
                         [operator(g, child_index) EXCEPT
                             !.columns = into_scan_columns(operator(g, node_id).columns)]
                 IN replace_node(remove_node(g, node_id), child_index, new_scan_op)
            ELSE g
    ELSE g

\* Itertools::unique_by(|col| col.id): the first column of each id
unique_by_id(cols) ==
    LET F[i \in 0..Len(cols)] ==
            IF i = 0 THEN <<>>
            ELSE IF \E j \in 1..Len(F[i-1]) : F[i-1][j].id = cols[i].id THEN F[i-1]
            ELSE Append(F[i-1], cols[i])
    IN F[Len(cols)]

\* through_child_columns without the filter on the referenced ids: every column the
\* grandchild references is pushed
through_child_columns_unfiltered(grandson_op, ids, input_refs, is_child_agg) ==
    With(unique_by_id(operator_referenced_columns(grandson_op)), LAMBDA kept :
    With([i \in 1..Len(kept) |-> ColumnRef(kept[i])], LAMBDA columns :
        IF ~is_child_agg /\ input_refs # <<>> THEN input_refs \o columns ELSE columns))

\* The columns of the Project that PushProjectThroughChild puts above a grandchild
\* (lines 112-126)
through_child_columns(grandson_op, ids, input_refs, is_child_agg) ==
    With(SeqFilter(unique_by_id(operator_referenced_columns(grandson_op)),
                   LAMBDA u : u.id \in ids), LAMBDA kept :
    With([i \in 1..Len(kept) |-> ColumnRef(kept[i])], LAMBDA columns :
        IF ~is_child_agg /\ input_refs # <<>> THEN input_refs \o columns ELSE columns))

\* The columns the Project and its child reference between them (lines 84-100): the
\* child's own, the Project's own, and those of the aggregate calls the Project's
\* InputRefs index when the child is an Aggregate
node_and_child_referenced_columns(node_operator, child_operator, input_refs) ==
    operator_referenced_columns(child_operator)
    \o operator_referenced_columns(node_operator)
    \o (IF child_operator.op = "Aggregate" /\ input_refs # <<>>
        THEN agg_mapping_col_refs(child_operator, input_refs) ELSE <<>>)

\* push_above_grandsons without the test on the column list: a Project above every
\* grandchild, empty or not
push_above_grandsons_unconditional(g, child_index, grandsons, ids, input_refs, is_child_agg) ==
    LET step[i \in 0..Len(grandsons)] ==
            IF i = 0 THEN g
            ELSE add_node(step[i-1], child_index, grandsons[i],
                          [op |-> "Project",
                           columns |-> through_child_columns(operator(g, grandsons[i]), ids,
                                                             input_refs, is_child_agg)])
    IN step[Len(grandsons)]

\* The loop over the grandchildren (lines 110-135): a Project above each grandchild that
\* references one of the ids
push_above_grandsons(g, child_index, grandsons, ids, input_refs, is_child_agg) ==
    LET step[i \in 0..Len(grandsons)] ==
            IF i = 0 THEN g
            ELSE With(through_child_columns(operator(g, grandsons[i]), ids,
                                            input_refs, is_child_agg), LAMBDA columns :
                    IF columns # <<>>
                    THEN add_node(step[i-1], child_index, grandsons[i],
                                  [op |-> "Project", columns |-> columns])
                    ELSE step[i-1])
    IN step[Len(grandsons)]

\* PushProjectThroughChild::apply
PushProjectThroughChild_apply(g, node_id) ==
    IF operator(g, node_id).op = "Project"
    THEN With(project_input_refs(operator(g, node_id)), LAMBDA input_refs :
         With(children_at(g, node_id)[1], LAMBDA child_index :
         With(node_and_child_referenced_columns(operator(g, node_id),
                  operator(g, child_index), input_refs), LAMBDA all :
         With({all[i].id : i \in 1..Len(all)}, LAMBDA intersection_columns_ids :
            IF intersection_columns_ids = {} THEN g
            ELSE push_above_grandsons(g, child_index, children_at(g, child_index),
                     intersection_columns_ids, input_refs,
                     operator(g, child_index).op = "Aggregate")))))
    ELSE g

\* ------------------------------------------------------------------ HepOptimizer

\* The iteration cap of the fix-point batch
MaxIteration == 10

\* The batches the optimizer is run with: a single top-down pass of PushProjectIntoScan,
\* and the fix-point of PushProjectThroughChild then PushProjectIntoScan
Batches ==
    {[rules |-> <<"PushProjectIntoScan">>, max_iteration |-> 1],
     [rules |-> <<"PushProjectThroughChild", "PushProjectIntoScan">>,
      max_iteration |-> MaxIteration]}

\* HepOptimizer::new(plan).batch(..): the graph of the bound plan
Optimize ==
    /\ pc = "done"
    /\ result = "Ok"
    /\ opt.state = "idle"
    /\ graph' = HepGraphNew(plan)
    /\ \E b \in Batches :
          opt' = [state |-> "running", batch |-> b, pass |-> 1, stack |-> <<0>>,
                  rule |-> 1, start_version |-> 0, shapes |-> <<plan>>]
    /\ UNCHANGED <<query, pc, context, select_list, plan, having_orderby, frames,
                   from_locals, result>>
    /\ UNCHANGED insert

\* The position after the rule at opt.rule was tried at the node on top of the stack:
\* the next rule at that node, or the node's children (top-down).
after_rule(g) ==
    LET n == Head(opt.stack)
    IN IF opt.rule < Len(opt.batch.rules)
       THEN [opt EXCEPT !.rule = @ + 1]
       ELSE [opt EXCEPT !.rule = 1,
                        !.stack = (IF n \in DOMAIN g.nodes THEN children_at(g, n) ELSE <<>>)
                                  \o Tail(opt.stack)]

\* One rule of the batch tried at one node: apply when the pattern matches
try_rule(pattern, g) ==
    LET n == Head(opt.stack)
    IN n \in DOMAIN g.nodes /\ match_opt_expr(pattern, g, n)

ApplyPushProjectThroughChild ==
    /\ opt.state = "running"
    /\ opt.stack # <<>>
    /\ opt.batch.rules[opt.rule] = "PushProjectThroughChild"
    /\ graph' = IF try_rule(PUSH_PROJECT_THROUGH_CHILD_RULE, graph)
                THEN PushProjectThroughChild_apply(graph, Head(opt.stack))
                ELSE graph
    /\ opt' = after_rule(graph')
    /\ UNCHANGED <<query, pc, context, select_list, plan, having_orderby, frames,
                   from_locals, result>>
    /\ UNCHANGED insert

ApplyPushProjectIntoScan ==
    /\ opt.state = "running"
    /\ opt.stack # <<>>
    /\ opt.batch.rules[opt.rule] = "PushProjectIntoScan"
    /\ graph' = IF try_rule(PUSH_PROJECT_INTO_SCAN_RULE, graph)
                THEN PushProjectIntoScan_apply(graph, Head(opt.stack))
                ELSE graph
    /\ opt' = after_rule(graph')
    /\ UNCHANGED <<query, pc, context, select_list, plan, having_orderby, frames,
                   from_locals, result>>
    /\ UNCHANGED insert

\* The plans the graph had when the batch started and after each pass that changed it
\* (kept to tell whether a pass brings an earlier plan back)
shapes_after_pass(g) ==
    IF g.version # opt.start_version THEN Append(opt.shapes, to_plan(g)) ELSE opt.shapes

\* The end of one top-down pass: another pass when the graph changed and the cap allows,
\* else find_best returns the plan of the graph
EndPass ==
    /\ opt.state = "running"
    /\ opt.stack = <<>>
    /\ IF graph.version # opt.start_version /\ opt.pass < opt.batch.max_iteration
       THEN opt' = [opt EXCEPT !.pass = @ + 1, !.stack = <<graph.root>>, !.rule = 1,
                               !.start_version = graph.version,
                               !.shapes = shapes_after_pass(graph)]
       ELSE opt' = [state |-> "done", batch |-> opt.batch, pass |-> opt.pass,
                    best_plan |-> to_plan(graph),
                    changed |-> graph.version # opt.start_version,
                    shapes |-> shapes_after_pass(graph)]
    /\ UNCHANGED <<query, pc, context, select_list, plan, having_orderby, frames,
                   from_locals, result, graph>>
    /\ UNCHANGED insert

\* ------------------------------------------------------------------ specifications

BindNext ==
    \/ BindQuery
    \/ BindTableRef
    \/ BindJoin
    \/ NormalizeSelectItem
    \/ ExtractSelectJoin
    \/ BindWhere
    \/ ExtractSelectAggregate
    \/ ExtractGroupByAggregate
    \/ ExtractHavingOrderbyAggregate
    \/ BindAggregate
    \/ BindHaving
    \/ BindDistinct
    \/ BindSort
    \/ BindProject
    \/ BindLimit

Init == BindInit
Next == BindNext

\* The binder: one binding pass over each input query
Spec == Init /\ [][Next]_vars

OptInit == StartOn(OptQueries \cup ConstantQueries)
OptNext ==
    \/ BindNext
    \/ Optimize
    \/ ApplyPushProjectThroughChild
    \/ ApplyPushProjectIntoScan
    \/ EndPass

\* The binder followed by the optimizer: each bound plan is run through one of the
\* batches of column-pruning rules
OptSpec == OptInit /\ [][OptNext]_vars

\* ------------------------------------------------------------------ plans and select lists

\* The sub-plans of a plan, root first
RECURSIVE sub_plans(_)
sub_plans(p) ==
    <<p>> \o SeqConcat([i \in 1..Len(p.childrens) |-> sub_plans(p.childrens[i])])

\* The operators of a plan, root first
plan_operators(p) == [i \in 1..Len(sub_plans(p)) |-> sub_plans(p)[i].operator]

\* The tables a plan scans
scanned_tables(p) ==
    {plan_operators(p)[i].table_name :
        i \in {j \in 1..Len(plan_operators(p)) : plan_operators(p)[j].op = "Scan"}}

\* The column list a plan produces at its root: a Project's or a Scan's columns, an
\* Aggregate's calls and groups, both sides of a Join, and the input's list under the
\* operators that pass their input on
RECURSIVE plan_schema(_)
plan_schema(p) ==
    CASE p.operator.op \in {"Project", "Scan"} -> p.operator.columns
      [] p.operator.op \in {"Limit", "Sort", "Filter"} -> plan_schema(p.childrens[1])
      [] p.operator.op = "Aggregate" -> p.operator.agg_calls \o p.operator.groupby_exprs
      [] p.operator.op = "Join" -> plan_schema(p.childrens[1]) \o plan_schema(p.childrens[2])
      [] OTHER -> <<>>

\* The Project bind_select ends with: the plan's root, under the Limit of bind_query
final_project(p) ==
    IF p.operator.op = "Limit" THEN p.childrens[1].operator ELSE p.operator

\* The aggregate calls of the plan's Aggregate operators
plan_agg_calls(p) ==
    SeqConcat([i \in 1..Len(plan_operators(p)) |->
        IF plan_operators(p)[i].op = "Aggregate" THEN plan_operators(p)[i].agg_calls
        ELSE <<>>])

\* The AggCalls of an expression, in the order visit_column_agg_expr meets them
RECURSIVE agg_calls_in(_)
agg_calls_in(e) ==
    CASE e.tag = "AggCall" -> <<e>>
      [] e.tag \in {"Alias", "TypeCast", "IsNull", "Unary"} -> agg_calls_in(e.expr)
      [] e.tag = "Binary" -> agg_calls_in(e.left_expr) \o agg_calls_in(e.right_expr)
      [] OTHER -> <<>>

\* The pairs <<AggCall of the bound item, what stands at its place in the final item>>
RECURSIVE replaced_by(_, _)
replaced_by(bound, final) ==
    CASE bound.tag = "AggCall" -> << <<bound, final>> >>
      [] bound.tag \in {"Alias", "TypeCast", "IsNull", "Unary"} /\ final.tag = bound.tag ->
            replaced_by(bound.expr, final.expr)
      [] bound.tag = "Binary" /\ final.tag = "Binary" ->
            replaced_by(bound.left_expr, final.left_expr)
            \o replaced_by(bound.right_expr, final.right_expr)
      [] OTHER -> [i \in 1..Len(agg_calls_in(bound)) |-> <<agg_calls_in(bound)[i], final>>]

\* The query is a plain SELECT whose binding has ended
SelectDone == pc = "done" /\ query.body.k = "Select"

\* The select list of the query as bind_select binds it, before any aggregate is
\* extracted from it: normalize_select_item over the tables of FROM, then the
\* nullability rewrite
bound_select_list ==
    extract_select_join(context,
        normalize_select_item([NewContext EXCEPT !.bind_table = context.bind_table],
                              query.body.select.projection).v.select_items)

\* The GROUP BY expressions of the query as bind_expr binds them
bound_group_by ==
    [j \in 1..Len(query.body.select.group_by) |->
        bind_expr(context, query.body.select.group_by[j]).v]

\* An expression without its aliases and without the nullable flags of its columns:
\* what a select item and a GROUP BY entry have in common when they name the same thing
RECURSIVE named_thing(_)
named_thing(e) ==
    CASE e.tag = "ColumnRef" -> ColumnRef([e.col EXCEPT !.nullable = FALSE])
      [] e.tag = "Alias" -> named_thing(e.expr)
      [] e.tag \in {"TypeCast", "IsNull", "Unary"} -> [e EXCEPT !.expr = named_thing(e.expr)]
      [] e.tag = "Binary" ->
            [e EXCEPT !.left_expr = named_thing(e.left_expr),
                      !.right_expr = named_thing(e.right_expr)]
      [] e.tag = "AggCall" -> [e EXCEPT !.args = [i \in 1..Len(e.args) |-> named_thing(e.args[i])]]
      [] OTHER -> e

\* Some select item without an aggregate is in no GROUP BY entry, or some GROUP BY entry
\* matches no select item
group_by_illegal(items, groups) ==
    \/ \E i \in 1..Len(items) :
          /\ agg_calls_in(items[i]) = <<>>
          /\ \A j \in 1..Len(groups) : named_thing(groups[j]) # named_thing(items[i])
    \/ \E j \in 1..Len(groups) :
          \A i \in 1..Len(items) : named_thing(items[i]) # named_thing(groups[j])

\* The nodes above a node of the graph
RECURSIVE ancestors(_, _)
ancestors(g, n) ==
    IF parent_id(g, n) < 0 THEN {}
    ELSE {parent_id(g, n)} \cup ancestors(g, parent_id(g, n))

\* The name a table factor is bound under: its alias, else the last part of its name
factor_name(relation) ==
    IF relation.alias.some THEN relation.alias.v
    ELSE to_lowercase(relation.name[Len(relation.name)])

\* ------------------------------------------------------------------ properties

\* C1: the column list the optimized plan produces at its root is the column list of the
\* plan the optimizer was given, whichever batch of column-pruning rules was run.
PlanPreservation ==
    opt.state = "done" => plan_schema(opt.best_plan) = plan_schema(plan)

\* C2: after the fix-point batch every Scan of the plan lists only columns of its table,
\* and lists every column of its table that an operator above it references.
ColumnPruningMonotone ==
    (opt.state = "done" /\ opt.batch.max_iteration = MaxIteration) =>
        \A n \in DOMAIN graph.nodes :
            operator(graph, n).op = "Scan" =>
                /\ \A i \in 1..Len(operator(graph, n).columns) :
                      /\ unpack_alias(operator(graph, n).columns[i]).tag = "ColumnRef"
                      /\ unpack_alias(operator(graph, n).columns[i]).col.id
                            \in {Storage[operator(graph, n).table_name][k].id :
                                    k \in 1..Len(Storage[operator(graph, n).table_name])}
                /\ \A a \in ancestors(graph, n) :
                      \A k \in 1..Len(operator_referenced_columns(operator(graph, a))) :
                          operator_referenced_columns(operator(graph, a))[k].table_name
                                = operator(graph, n).table_name
                          => \E i \in 1..Len(operator(graph, n).columns) :
                                /\ unpack_alias(operator(graph, n).columns[i]).tag = "ColumnRef"
                                /\ unpack_alias(operator(graph, n).columns[i]).col.id
                                      = operator_referenced_columns(operator(graph, a))[k].id

\* C3: a SELECT with GROUP BY (and no HAVING) that reaches the GROUP BY check fails with
\* AggMiss exactly when a select item without an aggregate is missing from GROUP BY or a
\* GROUP BY entry matches no select item; over joins and for aliased items as well.
GroupByLegality ==
    (/\ SelectDone
     /\ query.body.select.group_by # <<>>
     /\ ~query.body.select.having.some
     /\ result \in {"Ok", "AggMiss"}) =>
        (result = "AggMiss" <=> group_by_illegal(bound_select_list, bound_group_by))

\* C4: in the final Project, the columns of the table a LEFT or FULL join adds are
\* nullable, and the columns of the leftmost table are nullable under a RIGHT or FULL
\* join, for every join of the chain.
OuterJoinNullability ==
    (SelectDone /\ result = "Ok" /\ query.body.select.from # <<>>) =>
        \A j \in 1..Len(query.body.select.from[1].joins) :
            \A i \in 1..Len(final_project(plan).columns) :
                final_project(plan).columns[i].tag = "ColumnRef" =>
                    /\ (/\ query.body.select.from[1].joins[j].join_operator.kind
                              \in {"LeftOuter", "FullOuter"}
                        /\ final_project(plan).columns[i].col.table_name
                              = factor_name(query.body.select.from[1].joins[j].relation))
                       => final_project(plan).columns[i].col.nullable
                    /\ (/\ query.body.select.from[1].joins[j].join_operator.kind
                              \in {"RightOuter", "FullOuter"}
                        /\ final_project(plan).columns[i].col.table_name
                              = factor_name(query.body.select.from[1].relation))
                       => final_project(plan).columns[i].col.nullable

\* C5: after a successful bind_select no AggCall is left anywhere in the Project's
\* columns; at the place of each AggCall of the bound select list stands an InputRef of
\* the AggCall's type, which indexes that AggCall in the Aggregate's agg_calls, and no
\* two of them index the same entry.
AggregateExtractionFaithful ==
    (SelectDone /\ result = "Ok") =>
        /\ Len(final_project(plan).columns) = Len(bound_select_list)
        /\ \A i \in 1..Len(final_project(plan).columns) :
              agg_calls_in(final_project(plan).columns[i]) = <<>>
        /\ \A pairs \in {SeqConcat([i \in 1..Len(bound_select_list) |->
                            replaced_by(bound_select_list[i],
                                        final_project(plan).columns[i])])} :
              /\ \A k \in 1..Len(pairs) :
                    /\ pairs[k][2].tag = "InputRef"
                    /\ pairs[k][2].ty = pairs[k][1].ty
                    /\ pairs[k][2].index < Len(plan_agg_calls(plan))
                    /\ plan_agg_calls(plan)[pairs[k][2].index + 1] = pairs[k][1]
              /\ \A k, l \in 1..Len(pairs) :
                    k # l => pairs[k][2].index # pairs[l][2].index

\* A bound query whose select list has aggregates of two types below other expressions
AggregateExtractionWitness ==
    /\ SelectDone
    /\ result = "Ok"
    /\ \E i, j \in 1..Len(bound_select_list) :
          /\ bound_select_list[i].tag = "Binary"
          /\ Len(agg_calls_in(bound_select_list[i])) = 2
          /\ bound_select_list[j].tag = "Unary"
          /\ agg_calls_in(bound_select_list[j]) # <<>>
          /\ agg_calls_in(bound_select_list[j])[1].ty # agg_calls_in(bound_select_list[i])[1].ty
    /\ Len(plan_agg_calls(plan)) >= 3

\* C6: each pair of an equi-join key list is (a column of the join's left input, a column
\* of the join's right input), whatever the order of the operands in the ON expression.
JoinKeyOrientation ==
    (pc = "done" /\ result = "Ok") =>
        \A n \in 1..Len(sub_plans(plan)) :
            (sub_plans(plan)[n].operator.op = "Join" /\ sub_plans(plan)[n].operator.on.k = "On") =>
                \A k \in 1..Len(sub_plans(plan)[n].operator.on.on) :
                    /\ sub_plans(plan)[n].operator.on.on[k][1].col.table_name
                          \in scanned_tables(sub_plans(plan)[n].childrens[1])
                    /\ sub_plans(plan)[n].operator.on.on[k][2].col.table_name
                          \in scanned_tables(sub_plans(plan)[n].childrens[2])

\* C7: each ORDER BY item is bound to a sort field that is descending only when asc is
\* given as false, and nulls-first only when nulls_first is given as true.
SortFieldFlags ==
    (SelectDone /\ result = "Ok" /\ query.order_by # <<>>) =>
        \A n \in 1..Len(plan_operators(plan)) :
            plan_operators(plan)[n].op = "Sort" =>
                /\ Len(plan_operators(plan)[n].sort_fields) = Len(query.order_by)
                /\ \A i \in 1..Len(query.order_by) :
                      /\ plan_operators(plan)[n].sort_fields[i].desc
                            = ~(IF query.order_by[i].asc.some THEN query.order_by[i].asc.v
                                ELSE TRUE)
                      /\ plan_operators(plan)[n].sort_fields[i].nulls_first
                            = (IF query.order_by[i].nulls_first.some
                               THEN query.order_by[i].nulls_first.v ELSE FALSE)

\* C8: bind_query on a query with a WITH clause ends with the Unsupported error and no
\* plan.
WithRejected ==
    (pc = "done" /\ query.with) => (result = "Unsupported" /\ plan = NoPlan)

\* C9: bind_query ends with a plan or with a BindError value, never by aborting.
NoAbort ==
    pc = "done" => result \in {"Ok", "InvalidTable", "InvalidTableName", "InvalidColumn",
                               "AggMiss", "Unsupported"}

\* C10: once the first table factor of FROM is bound, a factor `t AS a` over an existing
\* table t has put the key a in bind_table with the catalog of t and no join type, and
\* the plan returned for it is a Scan of the columns of t.
AliasBinding ==
    (/\ query.body.k = "Select"
     /\ Len(query.body.select.from) = 1
     /\ query.body.select.from[1].relation.k = "Table"
     /\ query.body.select.from[1].relation.alias.some
     /\ Len(query.body.select.from[1].relation.name) = 1
     /\ table_catalog(to_lowercase(query.body.select.from[1].relation.name[1])).some
     /\ \/ pc \in {"bind_join", "normalize_select_item"} /\ from_locals.next_join = 1
        \/ pc = "done" /\ context.bind_table = <<>>) =>
        /\ bind_table_contains_key(context, query.body.select.from[1].relation.alias.v)
        /\ bind_table_get(context, query.body.select.from[1].relation.alias.v).catalog.columns
              = table_catalog(to_lowercase(query.body.select.from[1].relation.name[1])).v.columns
        /\ bind_table_get(context, query.body.select.from[1].relation.alias.v).join_type = None
        /\ plan.operator.op = "Scan"
        /\ plan.operator.columns
              = [i \in 1..Len(Storage[to_lowercase(query.body.select.from[1].relation.name[1])])
                    |-> ColumnRef(Storage[to_lowercase(
                            query.body.select.from[1].relation.name[1])][i])]

\* ------------------------------------------------------------------ pruning under a join

\* The plan is Project -> Join(on) -> (Scan, Scan)
project_join_scans(p) ==
    /\ p.operator.op = "Project"
    /\ Len(p.childrens) = 1
    /\ p.childrens[1].operator.op = "Join"
    /\ p.childrens[1].operator.on.k = "On"
    /\ Len(p.childrens[1].childrens) = 2
    /\ \A i \in 1..2 :
          /\ p.childrens[1].childrens[i].operator.op = "Scan"
          /\ p.childrens[1].childrens[i].childrens = <<>>

\* The ids of the columns the Project or the join condition of such a plan references
project_join_ids(p) ==
    {operator_referenced_columns(p.operator)[k].id :
        k \in 1..Len(operator_referenced_columns(p.operator))}
    \cup {operator_referenced_columns(p.childrens[1].operator)[k].id :
            k \in 1..Len(operator_referenced_columns(p.childrens[1].operator))}

\* The ids of the columns a Scan lists, and of the columns of a table
scan_ids(o) == {unpack_alias(o.columns[i]).col.id : i \in 1..Len(o.columns)}
table_ids(name) == {Storage[name][k].id : k \in 1..Len(Storage[name])}

\* The fix-point batch has ended on a plan Project -> Join(on) -> (Scan, Scan)
JoinPruned ==
    /\ opt.state = "done"
    /\ opt.batch.max_iteration = MaxIteration
    /\ project_join_scans(plan)

\* C11 as stated: the fix-point batch leaves Project -> Join -> (Scan, Scan) with the
\* Project and the join condition unchanged, and each scan lists exactly the columns of
\* its table that the Project or the join condition references.
JoinPruningExact ==
    JoinPruned =>
        /\ project_join_scans(opt.best_plan)
        /\ opt.best_plan.operator = plan.operator
        /\ opt.best_plan.childrens[1].operator = plan.childrens[1].operator
        /\ \A i \in 1..2 :
              /\ \A k \in 1..Len(opt.best_plan.childrens[1].childrens[i].operator.columns) :
                    unpack_alias(opt.best_plan.childrens[1].childrens[i].operator.columns[k]).tag
                        = "ColumnRef"
              /\ scan_ids(opt.best_plan.childrens[1].childrens[i].operator)
                    = project_join_ids(plan)
                      \cap table_ids(plan.childrens[1].childrens[i].operator.table_name)

\* C11, amended: the fix-point batch leaves Project -> Join -> (Scan, Scan) with the
\* Project and the join condition unchanged; a scan of a table of which the Project or
\* the join condition references some column lists exactly those columns, and a scan of
\* a table of which they reference none is left with the column list it had.
JoinPruning ==
    JoinPruned =>
        /\ project_join_scans(opt.best_plan)
        /\ opt.best_plan.operator = plan.operator
        /\ opt.best_plan.childrens[1].operator = plan.childrens[1].operator
        /\ \A i \in 1..2 :
              IF project_join_ids(plan)
                    \cap table_ids(plan.childrens[1].childrens[i].operator.table_name) = {}
              THEN opt.best_plan.childrens[1].childrens[i] = plan.childrens[1].childrens[i]
              ELSE /\ \A k \in 1..Len(opt.best_plan.childrens[1].childrens[i].operator.columns) :
                         opt.best_plan.childrens[1].childrens[i].operator.columns[k].tag
                            = "ColumnRef"
                   /\ opt.best_plan.childrens[1].childrens[i].operator.table_name
                         = plan.childrens[1].childrens[i].operator.table_name
                   /\ scan_ids(opt.best_plan.childrens[1].childrens[i].operator)
                         = project_join_ids(plan)
                           \cap table_ids(plan.childrens[1].childrens[i].operator.table_name)

\* SELECT c1, c3 FROM t1 LEFT JOIN t2 ON c1 = c3 after the fix-point batch: one column
\* in each scan
JoinPruningWitness ==
    /\ JoinPruned
    /\ plan.childrens[1].operator.join_type = "Left"
    /\ Len(plan.operator.columns) = 2
    /\ \A i \in 1..2 :
          /\ Len(plan.childrens[1].childrens[i].operator.columns) = 2
          /\ Len(opt.best_plan.childrens[1].childrens[i].operator.columns) = 1

\* ------------------------------------------------------------------ termination of find_best

\* C12: a batch makes at most max_iteration passes; no pass that changes the graph ends
\* on a plan the batch already had at the end of an earlier pass (or at its start); and
\* the fix-point batch ends with a pass that changed nothing.
MonotoneFixPoint ==
    opt.state \in {"running", "done"} =>
        /\ opt.pass <= opt.batch.max_iteration
        /\ \A i, j \in 1..Len(opt.shapes) : i # j => opt.shapes[i] # opt.shapes[j]
        /\ (opt.state = "done" /\ opt.batch.max_iteration = MaxIteration) => ~opt.changed

\* ------------------------------------------------------------------ LIMIT and OFFSET

\* A LIMIT or OFFSET that is given is a positive integer literal
positive_literal(x) == x.some => (x.v.k = "Value" /\ x.v.value > 0)

\* The number a Limit records for a LIMIT or OFFSET: the literal, 0 when it is missing
recorded(x) == IF x.some THEN x.v.value ELSE 0

\* C13 as stated: the plan bind_query returns has a Limit as its outermost operator
\* exactly when the query has a LIMIT or an OFFSET.
LimitOutermostIff ==
    (pc = "done" /\ result = "Ok") =>
        (plan.operator.op = "Limit" <=> (query.limit.some \/ query.offset.some))

\* C13, amended: when the query has a LIMIT or an OFFSET, the plan bind_query returns is
\* Limit{offset, limit} carrying the positive integer literals given (0 for the missing
\* one) over the plan bound for the query body; when the query has neither, the plan
\* returned is the plan bound for its body, as it is. So for a SELECT body the plan
\* returned has a Limit as its outermost operator exactly when the query has a LIMIT or
\* an OFFSET, and for a parenthesised query body without them it is the nested plan.
LimitWrapping ==
    /\ [][pc = "bind_limit" =>
            IF CurQuery.limit.some \/ CurQuery.offset.some
            THEN result' \in {"pending", "Ok"} =>
                    /\ positive_literal(CurQuery.limit) /\ positive_literal(CurQuery.offset)
                    /\ plan'.operator = [op |-> "Limit", offset |-> recorded(CurQuery.offset),
                                         limit |-> recorded(CurQuery.limit)]
                    /\ plan'.childrens = <<plan>>
            ELSE plan' = plan /\ result' \in {"pending", "Ok"}]_vars
    /\ []((pc = "done" /\ result = "Ok" /\ query.body.k = "Select") =>
            (plan.operator.op = "Limit" <=> (query.limit.some \/ query.offset.some)))

\* SELECT * FROM t1 LIMIT 1 OFFSET 2 bound: Limit{offset = 2, limit = 1} over the Project
LimitWrappingWitness ==
    /\ pc = "done"
    /\ result = "Ok"
    /\ query.body.k = "Select"
    /\ query.limit = Some(Value(1))
    /\ query.offset = Some(Value(2))
    /\ plan.operator = [op |-> "Limit", offset |-> 2, limit |-> 1]
    /\ plan.childrens[1].operator.op = "Project"

\* ------------------------------------------------------------------ the chain of bind_select

\* The operators of a plan from its root down its first children, to the first Scan, Join
\* or Dummy included
RECURSIVE spine(_)
spine(p) ==
    IF p.operator.op \in {"Scan", "Join", "Dummy"} \/ p.childrens = <<>>
    THEN <<p.operator>>
    ELSE <<p.operator>> \o spine(p.childrens[1])

\* The plan bind_select returned: the plan of bind_query without its Limit
select_plan == IF query.limit.some \/ query.offset.some THEN plan.childrens[1] ELSE plan

\* The operators the clauses of the query ask for, from the root down to the FROM plan
expected_chain ==
    <<[op |-> "Project", columns |-> select_list]>>
    \o (IF query.order_by # <<>>
        THEN <<[op |-> "Sort", sort_fields |-> having_orderby.orderby.v, limit |-> None]>>
        ELSE <<>>)
    \o (IF query.body.select.distinct
        THEN <<[op |-> "Aggregate", agg_calls |-> <<>>, groupby_exprs |-> select_list]>>
        ELSE <<>>)
    \o (IF query.body.select.having.some
        THEN <<[op |-> "Filter", predicate |-> having_orderby.having.v, having |-> TRUE]>>
        ELSE <<>>)
    \o (IF context.agg_calls # <<>> \/ context.group_by_exprs # <<>>
        THEN <<[op |-> "Aggregate", agg_calls |-> context.agg_calls,
                groupby_exprs |-> context.group_by_exprs]>>
        ELSE <<>>)
    \o (IF query.body.select.selection.some
        THEN <<[op |-> "Filter",
                predicate |-> bind_expr(context, query.body.select.selection.v).v,
                having |-> FALSE]>>
        ELSE <<>>)

\* C14: the plan bind_select returns reads, from the root down: Project over the final
\* select list; Sort iff ORDER BY; the distinct operator iff DISTINCT; Filter{having}
\* iff HAVING; Aggregate iff the context holds aggregate calls or group-by expressions;
\* Filter iff WHERE; then the FROM plan. Nothing else is on the chain and nothing twice.
SelectChain ==
    (SelectDone /\ result = "Ok") =>
        /\ Len(spine(select_plan)) = Len(expected_chain) + 1
        /\ SubSeq(spine(select_plan), 1, Len(expected_chain)) = expected_chain
        /\ spine(select_plan)[Len(expected_chain) + 1].op \in {"Scan", "Join", "Dummy"}

\* A SELECT DISTINCT with WHERE, GROUP BY, HAVING and ORDER BY bound: all six operators
\* above the Scan
SelectChainWitness ==
    /\ SelectDone
    /\ result = "Ok"
    /\ Len(spine(select_plan)) = 7
    /\ query.body.select.distinct
    /\ query.body.select.having.some
    /\ query.body.select.selection.some
    /\ query.order_by # <<>>
    /\ context.agg_calls # <<>>
    /\ context.group_by_exprs # <<>>

\* ------------------------------------------------------------------ numbering of aggregate calls

\* The pairs <<AggCall, what stands at its place>> over two lists of the same length
replaced_by_seq(bound, final) ==
    SeqConcat([i \in 1..Len(bound) |-> replaced_by(bound[i], final[i])])

\* The pairs are numbered base, base + 1, ... in their order: each AggCall is replaced by
\* the InputRef of its number and of its type, and stands at that index in agg_calls
numbered_from(pairs, base) ==
    \A k \in 1..Len(pairs) :
        /\ pairs[k][2] = InputRef(base + k - 1, pairs[k][1].ty)
        /\ base + k <= Len(context.agg_calls)
        /\ context.agg_calls[base + k] = pairs[k][1]

\* The HAVING expression and the ORDER BY expressions of the query as bind_expr binds
\* them, HAVING first, and what extract_having_orderby_aggregate returned for them
bound_having_orderby ==
    (IF query.body.select.having.some
     THEN <<bind_expr(context, query.body.select.having.v).v>> ELSE <<>>)
    \o [i \in 1..Len(query.order_by) |-> bind_expr(context, query.order_by[i].expr).v]
final_having_orderby ==
    (IF having_orderby.having.some THEN <<having_orderby.having.v>> ELSE <<>>)
    \o (IF having_orderby.orderby.some
        THEN [i \in 1..Len(having_orderby.orderby.v) |-> having_orderby.orderby.v[i].expr]
        ELSE <<>>)

\* The number of AggCalls in the bound select list
select_agg_count == Len(replaced_by_seq(bound_select_list, bound_select_list))

\* C15: during one binding pass, each InputRef that aggregate extraction creates has the
\* index at which ctx.agg_calls holds the AggCall it replaced; the AggCalls are numbered
\* 0, 1, 2, ... in pre-order over the select list, then HAVING, then ORDER BY; and
\* ctx.agg_calls is as long as the number of InputRefs so created.
AggCallNumbering ==
    (query.body.k = "Select" /\ result \in {"pending", "Ok"}) =>
        /\ context.input_ref_counters.AggCall = Len(context.agg_calls)
        /\ pc = "extract_group_by_aggregate" =>
              /\ Len(select_list) = Len(bound_select_list)
              /\ numbered_from(replaced_by_seq(bound_select_list, select_list), 0)
              /\ Len(context.agg_calls) = select_agg_count
        /\ pc \in {"bind_aggregate", "bind_having", "bind_distinct", "bind_sort",
                   "bind_project", "bind_limit", "done"} =>
              /\ Len(final_having_orderby) = Len(bound_having_orderby)
              /\ select_agg_count <= Len(context.agg_calls)
              /\ \A k \in 1..select_agg_count :
                    context.agg_calls[k]
                       = replaced_by_seq(bound_select_list, bound_select_list)[k][1]
              /\ numbered_from(replaced_by_seq(bound_having_orderby, final_having_orderby),
                               select_agg_count)
              /\ Len(context.agg_calls)
                    = select_agg_count
                      + Len(replaced_by_seq(bound_having_orderby, final_having_orderby))

\* A query bound with an aggregate in the select list, one in HAVING and one in ORDER BY:
\* the InputRef of the ORDER BY aggregate has index 2
AggCallNumberingWitness ==
    /\ SelectDone
    /\ result = "Ok"
    /\ select_agg_count = 1
    /\ having_orderby.having.some
    /\ having_orderby.orderby.some
    /\ Len(context.agg_calls) = 3
    /\ \E i \in 1..Len(having_orderby.orderby.v) :
          having_orderby.orderby.v[i].expr = InputRef(2, "Integer")

\* ------------------------------------------------------------------ the nullability rewrite

\* The select list as normalize_select_item returns it, before extract_select_join
normalized_select_list ==
    normalize_select_item([NewContext EXCEPT !.bind_table = context.bind_table],
                          query.body.select.projection).v.select_items

\* The column of the catalog bound under the column's table name that has its name
catalog_column(col) ==
    bind_table_get(context, col.table_name).catalog.columns[
        column_index(bind_table_get(context, col.table_name).catalog, col.name)]

\* C16: right after extract_select_join, with two or more tables bound, every ColumnRef of
\* select_list, at top level or below an Alias, TypeCast, Unary, Binary or aggregate
\* argument, whose table is in the force-nullable map is the catalog column with nullable
\* set to the map's flag and every other field kept; with fewer than two tables bound the
\* select list is as normalize_select_item returned it.
NullableRewriteDeep ==
    (query.body.k = "Select" /\ pc = "bind_where") =>
        IF Len(context.bind_table) < 2
        THEN select_list = normalized_select_list
        ELSE \A k \in 1..Len(referenced_columns_seq(select_list)) :
                referenced_columns_seq(select_list)[k].table_name
                    \in DOMAIN table_force_nullable(context)
                => referenced_columns_seq(select_list)[k]
                      = [catalog_column(referenced_columns_seq(select_list)[k]) EXCEPT
                            !.nullable = table_force_nullable(context)[
                                referenced_columns_seq(select_list)[k].table_name]]

\* ------------------------------------------------------------------ HAVING and ORDER BY legality

\* The expression holds, below TypeCast, IsNull, Unary and Binary only, a ColumnRef or an
\* Alias that is not one of the grouping expressions
RECURSIVE outside_grouping(_, _)
outside_grouping(ctx, expr) ==
    CASE expr.tag \in {"ColumnRef", "Alias"} -> ~SeqContains(ctx.group_by_exprs, expr)
      [] expr.tag \in {"TypeCast", "IsNull", "Unary"} -> outside_grouping(ctx, expr.expr)
      [] expr.tag = "Binary" ->
            outside_grouping(ctx, expr.left_expr) \/ outside_grouping(ctx, expr.right_expr)
      [] OTHER -> FALSE

\* C17: a select with a non-empty GROUP BY gets past HAVING and ORDER BY only when none of
\* their expressions references, at any depth under TypeCast, IsNull, Unary or Binary, a
\* column or alias outside the grouping set (otherwise binding has failed with AggMiss and
\* there is no plan); without GROUP BY bind_having accepts every HAVING expression.
HavingOrderbyLegality ==
    /\ (query.body.k = "Select" /\ pc = "bind_project" /\ context.group_by_exprs # <<>>) =>
          /\ having_orderby.having.some =>
                ~outside_grouping(context, having_orderby.having.v)
          /\ having_orderby.orderby.some =>
                \A k \in 1..Len(having_orderby.orderby.v) :
                    ~outside_grouping(context, having_orderby.orderby.v[k].expr)
    /\ (query.body.k = "Select" /\ pc = "bind_having" /\ context.group_by_exprs = <<>>
            /\ having_orderby.having.some) =>
          bind_having(context, plan, having_orderby.having.v).ok

\* ------------------------------------------------------------------ the ON constraint

\* The conjuncts of an ON expression read as a tree of ANDs, left to right
RECURSIVE conjuncts(_)
conjuncts(expr) ==
    IF expr.k = "BinaryOp" /\ expr.op = "And"
    THEN conjuncts(expr.left) \o conjuncts(expr.right)
    ELSE <<expr>>

\* An Eq of two column references, one found (by name) in each of the two tables
equi_conjunct(ctx, e, left_table, right_table) ==
    /\ e.k = "BinaryOp" /\ e.op = "Eq"
    /\ bind_expr(ctx, e.left).ok /\ bind_expr(ctx, e.right).ok
    /\ bind_expr(ctx, e.left).v.tag = "ColumnRef"
    /\ bind_expr(ctx, e.right).v.tag = "ColumnRef"
    /\ \/ /\ contains_column(left_table, bind_expr(ctx, e.left).v.col.name)
          /\ contains_column(right_table, bind_expr(ctx, e.right).v.col.name)
       \/ /\ contains_column(left_table, bind_expr(ctx, e.right).v.col.name)
          /\ contains_column(right_table, bind_expr(ctx, e.left).v.col.name)

\* The two sides of every equi conjunct, in the conjuncts' order
RECURSIVE equi_pairs(_, _, _, _)
equi_pairs(ctx, es, left_table, right_table) ==
    IF es = <<>> THEN <<>>
    ELSE (IF equi_conjunct(ctx, Head(es), left_table, right_table)
          THEN <<{bind_expr(ctx, Head(es).left).v, bind_expr(ctx, Head(es).right).v}>>
          ELSE <<>>) \o equi_pairs(ctx, Tail(es), left_table, right_table)

\* Every other conjunct, bound, in the conjuncts' order
RECURSIVE residuals(_, _, _, _)
residuals(ctx, es, left_table, right_table) ==
    IF es = <<>> THEN <<>>
    ELSE (IF equi_conjunct(ctx, Head(es), left_table, right_table)
          THEN <<>>
          ELSE <<bind_expr(ctx, Head(es)).v>>) \o residuals(ctx, Tail(es), left_table, right_table)

\* ((e1 AND e2) AND e3) ... of a non-empty sequence
RECURSIVE left_nested_and(_)
left_nested_and(es) ==
    IF Len(es) = 1 THEN es[1]
    ELSE Binary("And", left_nested_and(SubSeq(es, 1, Len(es) - 1)), es[Len(es)], "Boolean")

\* The last JOIN of the FROM entry being bound, and the two catalogs bind_join hands to
\* bind_join_constraint for it
last_join == CurSelect.from[1].joins[Len(CurSelect.from[1].joins)]
last_join_left == table_catalog(from_locals.left_name).v
last_join_right == context.bind_table[Len(context.bind_table)].catalog

\* The FROM clause has been bound and its last JOIN carries an ON constraint
on_join_bound ==
    /\ query.body.k = "Select" /\ pc = "normalize_select_item"
    /\ Len(CurSelect.from) = 1 /\ CurSelect.from[1].joins # <<>>
    /\ plan.operator.op = "Join" /\ plan.operator.on.k = "On"

\* C18: every conjunct of the ON expression that is not an AND is in exactly one of the
\* two lists of the join condition, in left-to-right order: the equi-key list when it is
\* an Eq of two column references, one found in each table, the residual list otherwise;
\* the filter is None iff there is no residual, else the left-nested AND of the
\* residuals in that order.
JoinConditionSplit ==
    on_join_bound =>
        /\ Len(plan.operator.on.on)
              = Len(equi_pairs(context, conjuncts(last_join.join_operator.constraint.expr),
                               last_join_left, last_join_right))
        /\ \A k \in 1..Len(plan.operator.on.on) :
              {plan.operator.on.on[k][1], plan.operator.on.on[k][2]}
                  = equi_pairs(context, conjuncts(last_join.join_operator.constraint.expr),
                               last_join_left, last_join_right)[k]
        /\ plan.operator.on.filter
              = IF residuals(context, conjuncts(last_join.join_operator.constraint.expr),
                             last_join_left, last_join_right) = <<>>
                THEN None
                ELSE Some(left_nested_and(
                        residuals(context, conjuncts(last_join.join_operator.constraint.expr),
                                  last_join_left, last_join_right)))

\* `ON c1 = c3 AND c1 > 1` has been bound to on = [(c1, c3)] and filter = Some(c1 > 1)
JoinConditionSplitWitness ==
    /\ on_join_bound
    /\ last_join.join_operator.constraint.expr = And(Eq(c1, c3), Gt(c1, Value(1)))
    /\ plan.operator.on.on = <<<<bind_expr(context, c1).v, bind_expr(context, c3).v>>>>
    /\ plan.operator.on.filter = Some(bind_expr(context, Gt(c1, Value(1))).v)

\* ------------------------------------------------------------------ PushProjectIntoScan

\* The expressions that are a column reference once one layer of Alias is taken off, in
\* the sequence's order
RECURSIVE column_refs_under_alias(_)
column_refs_under_alias(es) ==
    IF es = <<>> THEN <<>>
    ELSE (IF Head(es).tag = "ColumnRef"
             \/ (Head(es).tag = "Alias" /\ Head(es).expr.tag = "ColumnRef")
          THEN <<Head(es)>> ELSE <<>>) \o column_refs_under_alias(Tail(es))

\* The optimizer is about to apply PushProjectIntoScan to a Project whose single child is
\* a Scan
into_scan_matched ==
    /\ opt.state = "running" /\ opt.stack # <<>>
    /\ opt.batch.rules[opt.rule] = "PushProjectIntoScan"
    /\ Head(opt.stack) \in DOMAIN graph.nodes
    /\ operator(graph, Head(opt.stack)).op = "Project"
    /\ Len(children_at(graph, Head(opt.stack))) = 1
    /\ operator(graph, children_at(graph, Head(opt.stack))[1]).op = "Scan"

\* What the application to the Project `project` above the Scan `scan` makes of the
\* graph g: h is g without the Project, with the scan's columns replaced and everything
\* else as it was
project_pushed_into_scan(g, h, project, scan) ==
    /\ DOMAIN h.nodes = DOMAIN g.nodes \ {project}
    /\ h.nodes[scan] = [g.nodes[scan] EXCEPT
                           !.columns = column_refs_under_alias(g.nodes[project].columns)]
    /\ \A n \in DOMAIN h.nodes \ {scan} : h.nodes[n] = g.nodes[n]
    /\ \A n \in DOMAIN h.nodes :
          h.children[n] = [i \in 1..Len(g.children[n]) |->
                              IF g.children[n][i] = project THEN scan ELSE g.children[n][i]]
    /\ h.root = (IF g.root = project THEN scan ELSE g.root)

SelectStarT1 ==
    Query(FALSE, SelectBody(Select(FALSE, <<Wildcard>>, FromT1, None, <<>>, None)),
          <<>>, None, None)

\* C19: applying PushProjectIntoScan to a Project whose single child is a Scan removes the
\* Project and gives the Scan the Project's columns that are column references under at
\* most one Alias, in the Project's order; the Scan's other fields and every other node
\* stay as they were. For SELECT * FROM t1 the graph is then a single Scan with no
\* children and two columns.
ProjectIntoScan ==
    [][into_scan_matched =>
          /\ project_pushed_into_scan(graph, graph', Head(opt.stack),
                                      children_at(graph, Head(opt.stack))[1])
          /\ query = SelectStarT1 =>
                /\ to_plan(graph').operator.op = "Scan"
                /\ to_plan(graph').childrens = <<>>
                /\ Len(to_plan(graph').operator.columns) = 2
                /\ Cardinality(DOMAIN graph'.nodes) = 1]_vars

\* The batch has run on SELECT * FROM t1 and left a single Scan of two columns
ProjectIntoScanWitness ==
    /\ query = SelectStarT1
    /\ opt.state = "done"
    /\ opt.best_plan.operator.op = "Scan"
    /\ opt.best_plan.childrens = <<>>
    /\ Len(opt.best_plan.operator.columns) = 2
    /\ DOMAIN graph.nodes = {1}

\* ------------------------------------------------------------------ PushProjectThroughChild

\* The optimizer is about to apply PushProjectThroughChild to the node it matched
through_child_matched ==
    /\ opt.state = "running" /\ opt.stack # <<>>
    /\ opt.batch.rules[opt.rule] = "PushProjectThroughChild"
    /\ try_rule(PUSH_PROJECT_THROUGH_CHILD_RULE, graph)

\* h is g with nothing removed or changed and at most one new, non-empty Project between
\* the node `child` and each of its children
projects_only_added(g, h, project, child) ==
    /\ DOMAIN g.nodes \subseteq DOMAIN h.nodes
    /\ \A n \in DOMAIN g.nodes : h.nodes[n] = g.nodes[n]
    /\ \A n \in DOMAIN g.nodes \ {child} : h.children[n] = g.children[n]
    /\ h.root = g.root
    /\ Len(h.children[child]) = Len(g.children[child])
    /\ \A i \in 1..Len(g.children[child]) :
          \/ h.children[child][i] = g.children[child][i]
          \/ /\ h.children[child][i] \notin DOMAIN g.nodes
             /\ h.nodes[h.children[child][i]].op = "Project"
             /\ h.nodes[h.children[child][i]].columns # <<>>
             /\ h.children[h.children[child][i]] = <<g.children[child][i]>>
    /\ \A m \in DOMAIN h.nodes \ DOMAIN g.nodes :
          \E i \in 1..Len(h.children[child]) : h.children[child][i] = m
    /\ (operator_referenced_columns(g.nodes[project]) = <<>>
            /\ operator_referenced_columns(g.nodes[child]) = <<>>)
          => DOMAIN h.nodes = DOMAIN g.nodes

\* C20: PushProjectThroughChild::apply only adds nodes. Applied to the Project it matched,
\* it removes no node and changes no operator, and puts at most one new Project, never
\* with an empty column list, between the Project's child and each grandchild, none at all
\* when the Project and its child reference no column; applied to a node that is not a
\* Project it returns the graph as it was.
ProjectThroughChildFrame ==
    [][/\ through_child_matched =>
              projects_only_added(graph, graph', Head(opt.stack),
                                  children_at(graph, Head(opt.stack))[1])
       /\ opt.state = "running" =>
              \A n \in DOMAIN graph.nodes :
                  operator(graph, n).op # "Project"
                      => PushProjectThroughChild_apply(graph, n) = graph]_vars

\* The rule has put a Project above one input of a Join and none above the other
ProjectThroughChildFrameWitness ==
    /\ opt.state = "running"
    /\ graph.root \in DOMAIN graph.nodes
    /\ operator(graph, graph.root).op = "Project"
    /\ operator(graph, children_at(graph, graph.root)[1]).op = "Join"
    /\ operator(graph, children_at(graph, children_at(graph, graph.root)[1])[1]).op = "Project"
    /\ operator(graph, children_at(graph, children_at(graph, graph.root)[1])[2]).op = "Scan"

\* The rule was tried on a Project and a child that reference no column and added nothing
ProjectThroughChildNoColumnWitness ==
    /\ opt.state = "done"
    /\ query \in ConstantQueries
    /\ opt.batch.max_iteration = MaxIteration
    /\ plan.operator.op = "Project"
    /\ plan.childrens[1].operator.op \in {"Filter", "Join"}
    /\ operator_referenced_columns(plan.childrens[1].operator) = <<>>
    /\ opt.best_plan = plan

\* ------------------------------------------------------------------ GROUP BY rewriting

\* The first select item carrying the alias of the Alias expression e, 0 when e is no
\* Alias or no item has its alias
first_alias_match(items, e) ==
    IF e.tag = "Alias" /\ \E k \in 1..Len(items) : items[k].tag = "Alias" /\ items[k].alias = e.alias
    THEN CHOOSE k \in 1..Len(items) :
            /\ items[k].tag = "Alias" /\ items[k].alias = e.alias
            /\ \A j \in 1..(k - 1) : ~(items[j].tag = "Alias" /\ items[j].alias = e.alias)
    ELSE 0

\* The first select item equal to e, 0 when there is none
first_equal_item(items, e) ==
    IF \E k \in 1..Len(items) : items[k] = e
    THEN CHOOSE k \in 1..Len(items) : items[k] = e /\ \A j \in 1..(k - 1) : items[j] # e
    ELSE 0

\* The item at k is replaced by InputRef{next(GroupBy), its type} and moved to
\* group_by_exprs; nothing else changes
item_moved(ctx, items, k, out) ==
    /\ out.select_list = [items EXCEPT ![k] = InputRef(ctx.input_ref_counters["GroupBy"],
                                                       return_type(items[k]))]
    /\ out.context = [ctx EXCEPT !.group_by_exprs = Append(@, items[k]),
                                 !.input_ref_counters["GroupBy"] = @ + 1]

\* What one GROUP BY expression e does to the select list `items` and the context ctx,
\* out being the two afterwards
group_by_effect(ctx, items, e, out) ==
    /\ Len(out.select_list) = Len(items)
    /\ IF first_alias_match(items, e) # 0
       THEN item_moved(ctx, items, first_alias_match(items, e), out)
       ELSE IF first_equal_item(items, e) # 0
       THEN IF items[first_equal_item(items, e)].tag \in {"Constant", "ColumnRef"}
            THEN /\ out.select_list = items
                 /\ out.context = [ctx EXCEPT !.group_by_exprs =
                                       Append(@, items[first_equal_item(items, e)])]
            ELSE item_moved(ctx, items, first_equal_item(items, e), out)
       ELSE out.select_list = items /\ out.context = ctx

\* The context and select list after the first n GROUP BY expressions of the select
RECURSIVE after_group_by(_)
after_group_by(n) ==
    IF n = 0 THEN [context |-> context, select_list |-> select_list]
    ELSE visit_group_by_expr(after_group_by(n - 1).context, after_group_by(n - 1).select_list,
                             bind_expr(after_group_by(n - 1).context, CurSelect.group_by[n]).v)

\* GROUP BY expressions tried against every select list: columns, an expression, a
\* constant, select aliases and a column no select list has
GroupByCandidates ==
    {c1, c2, c3, Plus(c1, Value(1)), Value(1), Identifier("x"), Identifier("s"),
     Plus(c2, Value(1))}

\* bind_select is about to extract the GROUP BY expressions
at_group_by == query.body.k = "Select" /\ pc = "extract_group_by_aggregate"

\* C21: each GROUP BY expression, in order, changes at most one select item and appends at
\* most one entry to group_by_exprs: the item of an alias match, or an equal item that is
\* neither Constant nor ColumnRef, is replaced in place by InputRef{next(GroupBy), the
\* item's type} and moved to group_by_exprs; an equal Constant or ColumnRef is copied
\* there and left in place; without a match nothing changes. The select list keeps its
\* length and its other items.
GroupByRewriting ==
    at_group_by =>
        /\ \A g \in GroupByCandidates :
              bind_expr(context, g).ok =>
                  group_by_effect(context, select_list, bind_expr(context, g).v,
                      visit_group_by_expr(context, select_list, bind_expr(context, g).v))
        /\ validate_groupby_illegal_column(context, select_list, CurSelect.group_by).ok =>
              \A n \in 1..Len(CurSelect.group_by) :
                  group_by_effect(after_group_by(n - 1).context,
                                  after_group_by(n - 1).select_list,
                                  bind_expr(after_group_by(n - 1).context,
                                            CurSelect.group_by[n]).v,
                                  after_group_by(n))

\* GROUP BY of an alias: the aliased select item is about to be moved
GroupByRewritingWitness ==
    /\ at_group_by
    /\ CurSelect.group_by = <<Identifier("x")>>
    /\ bind_expr(context, Identifier("x")).ok
    /\ first_alias_match(select_list, bind_expr(context, Identifier("x")).v) = 1
    /\ validate_groupby_illegal_column(context, select_list, CurSelect.group_by).ok
    /\ after_group_by(1).select_list[1].tag = "InputRef"
    /\ after_group_by(1).context.group_by_exprs = <<select_list[1]>>

\* An equal item that is an expression is about to be moved
GroupByExpressionWitness ==
    /\ at_group_by
    /\ validate_groupby_illegal_column(context, select_list, CurSelect.group_by).ok
    /\ Len(CurSelect.group_by) = 1
    /\ first_equal_item(select_list, bind_expr(context, CurSelect.group_by[1]).v) # 0
    /\ after_group_by(1).select_list # select_list

\* Two GROUP BY columns are about to be copied, one after the other
GroupByTwoColumnsWitness ==
    /\ at_group_by
    /\ validate_groupby_illegal_column(context, select_list, CurSelect.group_by).ok
    /\ Len(CurSelect.group_by) = 2
    /\ Len(after_group_by(2).context.group_by_exprs) = 2
    /\ after_group_by(2).select_list = select_list

\* A constant select item meets the GROUP BY candidate 1, and a select list meets a
\* candidate it has no item for
GroupByConstantWitness ==
    /\ at_group_by
    /\ first_equal_item(select_list, bind_expr(context, Value(1)).v) # 0
    /\ first_equal_item(select_list, bind_expr(context, c1).v) = 0

\* ------------------------------------------------------------------ InputRef indexes

\* The pairs <<expression of the bound item, InputRef standing at its place in the final
\* item>>, for the aggregate calls and the GROUP BY items alike
RECURSIVE stands_for(_, _)
stands_for(bound, final) ==
    CASE final.tag = "InputRef" /\ bound.tag # "InputRef" -> << <<bound, final>> >>
      [] bound.tag \in {"Alias", "TypeCast", "IsNull", "Unary"} /\ final.tag = bound.tag ->
            stands_for(bound.expr, final.expr)
      [] bound.tag = "Binary" /\ final.tag = "Binary" ->
            stands_for(bound.left_expr, final.left_expr)
            \o stands_for(bound.right_expr, final.right_expr)
      [] OTHER -> <<>>

\* The pairs of the whole Project of the bound select
project_stands_for ==
    SeqConcat([i \in 1..Len(bound_select_list) |->
        stands_for(bound_select_list[i], final_project(plan).columns[i])])

\* C22: in the columns of the Project bind_select produces, two InputRefs that stand for
\* different expressions never carry the same index; in particular the InputRef of a
\* GROUP BY item never has the index of the InputRef of an aggregate call.
InputRefIndexUnique ==
    (SelectDone /\ result = "Ok"
        /\ Len(final_project(plan).columns) = Len(bound_select_list)) =>
        \A k, l \in 1..Len(project_stands_for) :
            project_stands_for[k][1] # project_stands_for[l][1]
                => project_stands_for[k][2].index # project_stands_for[l][2].index

\* ------------------------------------------------------------------ the Insert executor

\* DataValue: a null of some type, or a value
Null == [is_null |-> TRUE]
Int32(v) == [is_null |-> FALSE, v |-> v]

\* The table inserted into: a is the primary key, b is nullable, c is not
InsertColumnA == ColumnCatalog(0, "a", "t", FALSE, "Integer", TRUE)
InsertColumnB == ColumnCatalog(1, "b", "t", TRUE, "Integer", FALSE)
InsertColumnC == ColumnCatalog(2, "c", "t", FALSE, "Integer", FALSE)
\* TableCatalog::all_columns_with_id: the columns of the table in the order of their ids
all_columns_with_id == <<InsertColumnA, InsertColumnB, InsertColumnC>>

\* Tuple { id, columns, values }
Tuple(id, columns, values) == [id |-> id, columns |-> columns, values |-> values]

\* What the input stream yields: an error, or a tuple: every column given; b left out; c
\* left out; c given as null; no key given
StreamError == [ok |-> FALSE, err |-> "InputError"]
StreamItems ==
    {StreamError,
     Ok(Tuple(None, <<InsertColumnA, InsertColumnB, InsertColumnC>>, <<Int32(1), Int32(2), Int32(3)>>)),
     Ok(Tuple(None, <<InsertColumnA, InsertColumnC>>, <<Int32(1), Int32(3)>>)),
     Ok(Tuple(None, <<InsertColumnA, InsertColumnB>>, <<Int32(1), Int32(2)>>)),
     Ok(Tuple(None, <<InsertColumnA, InsertColumnB, InsertColumnC>>, <<Int32(1), Int32(2), Null>>)),
     Ok(Tuple(None, <<InsertColumnB, InsertColumnC>>, <<Int32(2), Int32(3)>>))}

\* The longest input stream
MaxTuples == 3

InputStreams == UNION {[1..n -> StreamItems] : n \in 0..MaxTuples}

\* primary_key_index.get_or_insert_with(..) (lines 46-51): the position of the primary key
\* among the columns of the first tuple, kept for the later ones; unwrap panics when that
\* tuple has no primary key
primary_idx(primary_key_index, columns) ==
    IF primary_key_index.some THEN Ok(primary_key_index.v)
    ELSE With(Position(columns, LAMBDA col : col.desc.is_primary), LAMBDA at :
            IF at = 0 THEN Err("panic") ELSE Ok(at - 1))

\* tuple_map (lines 53-57): column id to value, the last value of an id wins
tuple_map(columns, values) ==
    [id \in {columns[i].id : i \in 1..Len(values)} |->
        values[CHOOSE i \in 1..Len(values) :
                  columns[i].id = id /\ \A j \in (i + 1)..Len(values) : columns[j].id # id]]

\* tuple_map.remove(col_id).unwrap_or_else(none) (lines 67-68)
value_for(map, col) == IF col.id \in DOMAIN map THEN map[col.id] ELSE Null

\* The test of line 70: a null for a column that is not nullable
null_rejected(value, col) == value.is_null /\ ~col.nullable

\* The loop over the table's columns (lines 66-76): the tuple to append, or InternalError
full_tuple(id, map) ==
    IF \E i \in 1..Len(all_columns_with_id) :
          null_rejected(value_for(map, all_columns_with_id[i]), all_columns_with_id[i])
    THEN Err("InternalError")
    ELSE Ok(Tuple(id, all_columns_with_id,
                  [i \in 1..Len(all_columns_with_id) |-> value_for(map, all_columns_with_id[i])]))

\* One iteration of the loop over the input up to the call of append (lines 45-78):
\* [primary_key_index, tuple] or the error the run ends with; values[*primary_idx]
\* panics when the kept index is beyond the tuple's values
next_tuple(primary_key_index, item) ==
    AndThen(item, LAMBDA t :
    AndThen(primary_idx(primary_key_index, t.columns), LAMBDA idx :
        IF idx >= Len(t.values) THEN Err("panic")
        ELSE AndThen(full_tuple(Some(t.values[idx + 1]), tuple_map(t.columns, t.values)),
                     LAMBDA tuple :
                Ok([primary_key_index |-> Some(idx), tuple |-> tuple]))))

\* Insert::_execute is called: the storage may lack the table or its catalog, the input
\* holds up to MaxTuples items, table.append may fail at one call and table.commit may fail
InsertStart(storage, input, append_fails_at, commit_fails) ==
    [state |-> "start", storage |-> storage, input |-> input,
     append_fails_at |-> append_fails_at, commit_fails |-> commit_fails,
     next |-> 1, primary_key_index |-> None, appended |-> <<>>, append_calls |-> 0,
     commit_calls |-> 0, result |-> "running"]

InsertRuns ==
    {InsertStart([table_catalog |-> TRUE, table |-> TRUE], input, a, FALSE) :
        input \in InputStreams, a \in 0..MaxTuples}
    \cup {InsertStart([table_catalog |-> TRUE, table |-> TRUE], input, 0, TRUE) :
            input \in InputStreams}
    \cup {InsertStart(st, input, 0, FALSE) :
            st \in {[table_catalog |-> FALSE, table |-> TRUE],
                    [table_catalog |-> TRUE, table |-> FALSE],
                    [table_catalog |-> FALSE, table |-> FALSE]},
            input \in InputStreams}

InsertInit ==
    /\ insert \in InsertRuns
    /\ query = SelectStarT1
    /\ pc = "idle"
    /\ context = NewContext
    /\ select_list = <<>>
    /\ plan = NoPlan
    /\ having_orderby = [having |-> None, orderby |-> None]
    /\ frames = <<>>
    /\ from_locals = [left_name |-> "", next_join |-> 1]
    /\ result = "idle"
    /\ graph = EmptyGraph
    /\ opt = [state |-> "idle"]

binder_vars == <<query, pc, context, select_list, plan, having_orderby, frames,
                 from_locals, result, graph, opt>>

\* Lines 41-43: the catalog and the table are looked up; without both the run ends at once
InsertOpen ==
    /\ insert.state = "start"
    /\ insert' = IF insert.storage.table_catalog /\ insert.storage.table
                 THEN [insert EXCEPT !.state = "loop"]
                 ELSE [insert EXCEPT !.state = "finished", !.result = "Ok"]
    /\ UNCHANGED binder_vars

\* Lines 44-80: the next item of the input is read, the tuple is built and appended
InsertTuple ==
    /\ insert.state = "loop"
    /\ insert.next <= Len(insert.input)
    /\ \E r \in {next_tuple(insert.primary_key_index, insert.input[insert.next])} :
          insert' =
             IF ~r.ok
             THEN [insert EXCEPT !.state = "finished", !.result = r.err, !.next = @ + 1]
             ELSE IF insert.append_calls + 1 = insert.append_fails_at
             THEN [insert EXCEPT !.state = "finished", !.result = "AppendError",
                                 !.next = @ + 1, !.append_calls = @ + 1,
                                 !.primary_key_index = r.v.primary_key_index]
             ELSE [insert EXCEPT !.next = @ + 1, !.append_calls = @ + 1,
                                 !.appended = Append(@, r.v.tuple),
                                 !.primary_key_index = r.v.primary_key_index]
    /\ UNCHANGED binder_vars

\* Line 82: the input is exhausted, table.commit is called
InsertCommit ==
    /\ insert.state = "loop"
    /\ insert.next > Len(insert.input)
    /\ insert' = [insert EXCEPT !.state = "finished", !.commit_calls = @ + 1,
                                !.result = IF insert.commit_fails THEN "CommitError" ELSE "Ok"]
    /\ UNCHANGED binder_vars

InsertNext ==
    \/ InsertOpen
    \/ InsertTuple
    \/ InsertCommit

\* One run of the Insert executor on each input stream and storage
InsertSpec == InsertInit /\ [][InsertNext]_vars

\* ------------------------------------------------------------------ commit comes last

\* The tuple would leave a column that is not nullable without a value, or give it a null
null_in_non_nullable(t) ==
    \E col \in {all_columns_with_id[i] : i \in 1..Len(all_columns_with_id)} :
        /\ ~col.nullable
        /\ \A i \in 1..Len(t.columns) : t.columns[i].id = col.id => t.values[i].is_null

\* The input item at k is an error, or a tuple that cannot be appended: a null for a
\* column that is not nullable, or the append that fails
item_fails(k) ==
    \/ ~insert.input[k].ok
    \/ null_in_non_nullable(insert.input[k].v)
    \/ k = insert.append_fails_at

has_failure == \E k \in 1..Len(insert.input) : item_fails(k)
first_failure == CHOOSE k \in 1..Len(insert.input) : item_fails(k) /\ \A j \in 1..(k - 1) : ~item_fails(j)

storage_found == insert.storage.table_catalog /\ insert.storage.table

\* C23: in one run of the Insert executor commit is called at most once and only after
\* every input tuple was appended; when an input item is an error, an append fails or a
\* column that is not nullable would get a null, no tuple from that item on is appended,
\* commit is never called and the run ends with an error (a value of ExecutorError, not
\* a panic) without reading further; when the table or its catalog is missing nothing is
\* read, appended or committed.
CommitAfterAllAppends ==
    insert.state # "idle" =>
        /\ insert.commit_calls <= 1
        /\ insert.commit_calls = 1 =>
              /\ \A k \in 1..Len(insert.input) : insert.input[k].ok
              /\ Len(insert.appended) = Len(insert.input)
              /\ insert.append_calls = Len(insert.input)
        /\ ~storage_found =>
              /\ insert.next = 1
              /\ insert.appended = <<>>
              /\ insert.append_calls = 0
              /\ insert.commit_calls = 0
        /\ (storage_found /\ has_failure) =>
              /\ insert.commit_calls = 0
              /\ Len(insert.appended) < first_failure
              /\ insert.next <= first_failure + 1
              /\ insert.state = "finished" =>
                    insert.result \in {"InputError", "InternalError", "AppendError"}

\* A run that appended its first tuple, met a null for the column c in the second and
\* ended there, with a third item unread and no commit
CommitAfterAllAppendsWitness ==
    /\ insert.state = "finished"
    /\ storage_found
    /\ Len(insert.input) = 3
    /\ first_failure = 2
    /\ insert.input[2].ok
    /\ insert.append_fails_at = 0
    /\ insert.result = "InternalError"
    /\ Len(insert.appended) = 1
    /\ insert.next = 3
    /\ insert.commit_calls = 0

\* A run that appended every tuple of its input and committed once
CommitReachedWitness ==
    /\ insert.state = "finished"
    /\ Len(insert.input) = MaxTuples
    /\ Len(insert.appended) = MaxTuples
    /\ insert.commit_calls = 1
    /\ insert.result = "Ok"

====
